---- MODULE Spec2Model ----
(***************************************************************************)
(* A model of parley's greedy line breaker (layout/line/greedy.rs), of the *)
(* hierarchical style builder (resolve/tree.rs), of the bidi reordering of *)
(* line items, and of the layout builders (builder.rs).                    *)
(*                                                                         *)
(* Indices are 0-based as in the source; the sequences that hold runs,     *)
(* clusters, lines and line items are 1-based, so element k of the source  *)
(* is element k+1 of the sequence.  An Option is a sequence of length 0    *)
(* (None) or 1 (Some).  f32 values are integers: every shaped advance and  *)
(* every max_advance is a multiple of Unit, which makes each division of   *)
(* the justification code exact, as it is in f32 for the same values.      *)
(***************************************************************************)
EXTENDS Integers, Sequences, FiniteSets, TLC

\* ------------------------------------------------------------------------
\* Bounds of the model
\* ------------------------------------------------------------------------
MaxClusters == 3
MaxRuns == 2
MaxAdvanceUnits == 2
MaxPasses == 1
MaxItems == 4
MaxLevel == 3
MaxTreeNodes == 5
MaxBegins == 1
MaxPushLen == 2
MaxProps == 2
MaxBoxes == 3
MaxBoxIndex == 1
MaxBoxTreeNodes == 2
MaxRangedProps == 1
MaxRebuildBoxes == 2
\* clusters of a text with several ligatures in a row
MaxLigatureClusters == 7
\* its runs
MaxLigatureRuns == 3
\* clusters of a text whose ligatures lie in several runs, and the widest
\* max_advance it is broken to, in units
MaxRunLigatureClusters == 8
MaxRunLigatureAdvanceUnits == 5

\* f32::INFINITY (max_advance of a layout without a width limit)
INFINITY == 1000000000
\* f32::MAX, the largest finite f32
F32_MAX == 999999999

RECURSIVE Lcm1(_)
\* a common multiple of 1..n
Lcm1(n) == IF n <= 1 THEN 1 ELSE n * Lcm1(n - 1)

RECURSIVE Pow(_, _)
Pow(b, e) == IF e = 0 THEN 1 ELSE b * Pow(b, e - 1)

\* one layout unit; divisible by every possible num_spaces, once per pass
Unit == 2 * Pow(Lcm1(MaxClusters), MaxPasses)

Min(a, b) == IF a < b THEN a ELSE b
Max(a, b) == IF a > b THEN a ELSE b

\* core::ops::Range<usize>
Range(s, e) == [start |-> s, end |-> e]
\* Range::len (ExactSizeIterator: 0 when start >= end)
RangeLen(r) == IF r.end > r.start THEN r.end - r.start ELSE 0
\* Range::is_empty
RangeIsEmpty(r) == ~(r.start < r.end)

\* Option
None == << >>
Some(v) == << v >>
IsSome(o) == Len(o) = 1
Unwrap(o) == o[1]


VARIABLES
    runs,          \* layout.runs: cluster_range, bidi_level, metrics
    clusters,      \* layout.clusters: advance, boundary, whitespace, ligature flags
    text_len,      \* layout.text_len
    layout_lines,  \* layout.lines (while no breaker lives, or what the breaker swapped in)
    layout_items,  \* layout.line_items
    layout_size,   \* layout.width, layout.full_width, layout.height
    alive,         \* a BreakLines value exists
    lines,         \* BreakLines.lines.lines
    line_items,    \* BreakLines.lines.line_items
    state,         \* BreakLines.state
    prev_state,    \* BreakLines.prev_state
    done,          \* BreakLines.done
    panicked,      \* the last operation panicked (the program stops)
    passes,        \* number of BreakLines constructed so far
    shaped,        \* history: the advances the shaper produced
    hist,          \* history: the last operation, its result, and the breaker
                   \* before the last break_next
    tree,                 \* TreeStyleBuilder.tree
    flatted_styles,       \* TreeStyleBuilder.flatted_styles
    current_span,         \* TreeStyleBuilder.current_span
    total_text_len,       \* TreeStyleBuilder.total_text_len
    text_last_pushed_at,  \* TreeStyleBuilder.text_last_pushed_at
    styles,               \* the vector finish writes to (lcx.styles)
    tb,                   \* history of the tree builder: last operation, whether
                          \* it panicked, the number of begin calls, the styles of
                          \* the spans that are open
                          \* (innermost last) and the style each byte was pushed with
    reorder_in,    \* the line items handed to reorder_line_items
    reorder_out,   \* Option: the items after reorder_line_items
    lcx_inline_boxes,  \* lcx.inline_boxes: the boxes pushed since the last build
    inline_boxes,      \* layout.data.inline_boxes
    ranged,            \* lcx.ranged_style_builder: len, default_style, properties
    info_len           \* the number of entries of lcx.info (one per analysed character)

layoutVars == << runs, clusters, text_len, layout_lines, layout_items, layout_size,
                 alive, lines, line_items, state, prev_state, done, panicked,
                 passes, shaped, hist >>
treeVars == << tree, flatted_styles, current_span, total_text_len,
               text_last_pushed_at, styles, tb >>
reorderVars == << reorder_in, reorder_out >>
boxVars == << lcx_inline_boxes, inline_boxes, ranged, info_len >>
vars == << layoutVars, treeVars, reorderVars, boxVars >>

\* ------------------------------------------------------------------------
\* Layout access
\* ------------------------------------------------------------------------
NumClusters == Len(clusters)
NumRuns == Len(runs)
\* layout.clusters[k]
Cl(k) == clusters[k + 1]
\* layout.runs[r]
Rn(r) == runs[r + 1]

\* Run::get(index): the index is relative to the run's first cluster and is
\* bounded by the cluster array only.  The result is the absolute cluster
\* index, or -1 for None.
RunGet(run, index) ==
    LET k == run.cluster_range.start + index
    IN IF k < NumClusters THEN k ELSE -1

\* Cluster::text_range: cluster k covers the bytes [k, k+1)
ClusterTextRange(k) == Range(k, k + 1)

\* cluster.info.whitespace().is_space_or_nbsp()
IsSpaceOrNbsp(k) == Cl(k).whitespace = "Space"
\* cluster.info.is_whitespace()
IsWhitespace(k) == Cl(k).whitespace # "None"

\* ------------------------------------------------------------------------
\* Breaker state
\* ------------------------------------------------------------------------
\* LineState::default()
LineStateDefault ==
    [x |-> 0, runs |-> Range(0, 0), clusters |-> Range(0, 0),
     skip_mandatory_break |-> FALSE, num_spaces |-> 0]

\* BreakerState::default()
BreakerStateDefault ==
    [items |-> 0, lines |-> 0, run_idx |-> 0, cluster_idx |-> 0,
     line |-> LineStateDefault, prev_boundary |-> None]

\* LineData pushed by commit_line (metrics are filled in by finish)
NewLineData(run_range, max_advance, alignment, break_reason, num_spaces, x) ==
    [run_range |-> run_range, max_advance |-> max_advance,
     alignment |-> alignment, break_reason |-> break_reason,
     num_spaces |-> num_spaces, text_range |-> Range(0, 0),
     advance |-> x, trailing_whitespace |-> 0, offset |-> 0,
     ascent |-> 0, descent |-> 0, leading |-> 0, baseline |-> 0]

\* LineItemData pushed by commit_line
NewLineItem(index, bidi_level, cluster_range, text_range) ==
    [index |-> index, bidi_level |-> bidi_level,
     is_whitespace |-> FALSE, has_trailing_whitespace |-> FALSE,
     cluster_range |-> cluster_range, text_range |-> text_range,
     advance |-> 0]

\* ------------------------------------------------------------------------
\* commit_line
\* ------------------------------------------------------------------------
\* The line item for run_data, the i-th run of state.runs, clipped to the
\* cluster range [cs, ce), as a record [skip, panic, item]; first and last are
\* the results of the two run.get calls
ClippedItem(index, run_data, cs, ce, is_empty, first, last) ==
    [skip |-> cs > ce \/ (~is_empty /\ cs = ce),
     panic |-> /\ ~(cs > ce \/ (~is_empty /\ cs = ce))
               /\ ~RangeIsEmpty(run_data.cluster_range)
               /\ (first = -1 \/ last = -1),
     item |-> NewLineItem(index, run_data.bidi_level, Range(cs, ce),
                  IF RangeIsEmpty(run_data.cluster_range) \/ first = -1 \/ last = -1
                  THEN Range(0, 0)
                  ELSE Range(ClusterTextRange(first).start, ClusterTextRange(last).end))]

\* the clipping of run_data to the pending line's clusters; with overflow
\* checks a subtraction below zero panics, without them it wraps and run.get
\* wraps back when it adds the run's start
ClipRun(st, i, last_run, run_data, cs, ce, is_empty, overflow_checks) ==
    ClippedItem(st.runs.start + i, run_data, cs, ce, is_empty,
                \* run.get(cluster_range.start - run_data.cluster_range.start)
                IF cs >= run_data.cluster_range.start \/ ~overflow_checks
                THEN RunGet(run_data, cs - run_data.cluster_range.start) ELSE -1,
                \* run.get((cluster_range.end - run_data.cluster_range.start)
                \*             .saturating_sub(1))
                IF ce < run_data.cluster_range.start
                THEN (IF ~overflow_checks /\ ce >= 1
                      THEN RunGet(run_data, ce - run_data.cluster_range.start - 1)
                      ELSE -1)
                ELSE IF ce - run_data.cluster_range.start >= 1
                THEN RunGet(run_data, ce - run_data.cluster_range.start - 1)
                ELSE RunGet(run_data, 0))

\* The line item of the i-th run of state.runs, as a record
\*   [skip, panic, item]
CommitItem(st, i, last_run, is_empty, overflow_checks) ==
    ClipRun(st, i, last_run, Rn(st.runs.start + i),
            IF i = 0 THEN st.clusters.start
            ELSE Rn(st.runs.start + i).cluster_range.start,
            IF i = last_run THEN st.clusters.end
            ELSE Rn(st.runs.start + i).cluster_range.end,
            is_empty, overflow_checks)

RECURSIVE CommitItems(_, _, _, _, _, _, _)
\* what the loop does with the item c of run i
CommitItemsNext(st, i, n, last_run, is_empty, acc, c, overflow_checks) ==
    IF c.panic THEN [panic |-> TRUE, items |-> acc]
    ELSE CommitItems(st, i + 1, n, last_run, is_empty,
                     IF c.skip THEN acc ELSE Append(acc, c.item), overflow_checks)

\* the loop over layout.runs[state.runs]: [panic, items]
CommitItems(st, i, n, last_run, is_empty, acc, overflow_checks) ==
    IF i >= n THEN [panic |-> FALSE, items |-> acc]
    ELSE CommitItemsNext(st, i, n, last_run, is_empty, acc,
                         CommitItem(st, i, last_run, is_empty, overflow_checks), overflow_checks)

\* a commit_line that stores the count as it is
StoredNumSpacesAsCounted(num_spaces, break_reason) == num_spaces

\* num_spaces stored in the line
StoredNumSpaces(num_spaces, break_reason) ==
    IF break_reason = "Regular"
    THEN (IF num_spaces >= 1 THEN num_spaces - 1 ELSE 0)
    ELSE num_spaces

\* the end of commit_line: the pending line becomes the continuation of the
\* committed one
RollLineState(st) ==
    [st EXCEPT !.clusters = Range(st.clusters.end, st.clusters.end + 1),
               !.runs.start = st.runs.end - 1,
               !.num_spaces = 0]

\* the end of commit_line, after the loop has left r = [panic, items]
CommitPushed(ls, its, st, max_advance, alignment, break_reason, r) ==
    IF r.panic
    THEN [ok |-> FALSE, panic |-> TRUE, lines |-> ls, items |-> r.items, line |-> st]
    ELSE IF Len(its) = Len(r.items)
    THEN [ok |-> FALSE, panic |-> FALSE, lines |-> ls, items |-> its, line |-> st]
    ELSE [ok |-> TRUE, panic |-> FALSE,
          lines |-> Append(ls, NewLineData(Range(Len(its), Len(r.items)),
                                max_advance, alignment, break_reason,
                                StoredNumSpaces(st.num_spaces, break_reason),
                                st.x)),
          items |-> r.items,
          line |-> RollLineState(st)]

\* a commit_line that takes every text for a non-empty one
CommitClampedNonEmpty(ls, its, st, max_advance, alignment, break_reason, overflow_checks) ==
    CommitPushed(ls, its, st, max_advance, alignment, break_reason,
        IF \/ overflow_checks /\ RangeLen(st.runs) = 0
           \/ st.runs.start > st.runs.end
           \/ st.runs.end > NumRuns
        THEN [panic |-> TRUE, items |-> its]
        ELSE CommitItems(st, 0, RangeLen(st.runs), RangeLen(st.runs) - 1,
                         FALSE, its, overflow_checks))

\* commit_line once state.clusters.end is clamped; on an empty state.runs
\* "state.runs.len() - 1" panics with overflow checks and wraps without them
\* (the loop then has nothing to do), and the slice of the runs panics on a
\* bad range
CommitClamped(ls, its, st, max_advance, alignment, break_reason, overflow_checks) ==
    CommitPushed(ls, its, st, max_advance, alignment, break_reason,
        IF \/ overflow_checks /\ RangeLen(st.runs) = 0
           \/ st.runs.start > st.runs.end
           \/ st.runs.end > NumRuns
        THEN [panic |-> TRUE, items |-> its]
        ELSE CommitItems(st, 0, RangeLen(st.runs), RangeLen(st.runs) - 1,
                         text_len = 0, its, overflow_checks))

\* commit_line(layout, lines, state, max_advance, alignment, break_reason):
\*   [ok, panic, lines, items, line]
commit_line(ls, its, st0, max_advance, alignment, break_reason, overflow_checks) ==
    CommitClamped(ls, its, [st0 EXCEPT !.clusters.end = Min(@, NumClusters)],
                  max_advance, alignment, break_reason, overflow_checks)

\* ------------------------------------------------------------------------
\* break_next
\* ------------------------------------------------------------------------
\* The value a break_next in progress works on: the breaker's line buffers,
\* its state, and how the call ended ("cont" while it is still iterating,
\* "some"/"none" for its return value, "panic", and "diverge" when the
\* iteration budget of the model is used up).
Ctx(ls, its, st, ret, dn, g) ==
    [lines |-> ls, items |-> its, st |-> st, ret |-> ret, done |-> dn, g |-> g]

\* What the model records about a call: the loop iterations it has made, the
\* last cluster it measured (its index, the cluster_idx after the ligature
\* sweep, the advance that was tested against max_advance and the x of the
\* pending line it was added to), and the
\* PrevBoundaryState it has rewrapped to.
NoProbe == [iters |-> 0, probe |-> None, rewrap |-> None]

\* "next_x <= max_advance": the cluster(s) fit on the pending line
Fits(next_x, max_advance) == next_x <= max_advance

\* a breaker without the guard against cycling
RewrapNeverCycles(prev) == FALSE

\* "prev.state.x == 0.": rewrapping to the stored boundary would cycle
RewrapWouldCycle(prev) == prev.state.x = 0

\* "run.get(self.state.cluster_idx + 1)": the cluster the ligature sweep
\* looks at next
SweepLookup(run, cluster_idx) == RunGet(run, cluster_idx + 1)

\* start_new_line
start_new_line(ls, its, st) ==
    [st EXCEPT !.items = Len(its), !.lines = Len(ls), !.line.x = 0]

RECURSIVE LigatureSweep(_, _, _)
\* the while-let loop of break_next at a ligature start: [cluster_idx, advance]
LigatureSweep(run, cluster_idx, advance) ==
    LET k == SweepLookup(run, cluster_idx)
    IN IF k = -1 THEN [cluster_idx |-> cluster_idx, advance |-> advance]
       ELSE IF Cl(k).ligature # "cont"
       THEN [cluster_idx |-> cluster_idx, advance |-> advance]
       ELSE LigatureSweep(run, cluster_idx + 1, advance + Cl(k).advance)

\* The call after "commit_line(...)" returned c: the buffers and the pending
\* line are what commit_line left, and the call goes on ("cont") when
\* nothing was committed
AfterCommit(b, c) ==
    [b EXCEPT !.lines = c.lines, !.items = c.items, !.st.line = c.line,
              !.ret = IF c.panic THEN "panic" ELSE IF c.ok THEN "some" ELSE "cont"]

\* "self.start_new_line()" before "return self.start_new_line()"
NewLineStarted(r) ==
    [r EXCEPT !.st = start_new_line(r.lines, r.items, r.st)]

\* a breaker that keeps the stored boundary when it starts the next line
ConsumeKeepsBoundary(r) ==
    IF r.ret = "some"
    THEN NewLineStarted([r EXCEPT !.st.cluster_idx = @ + 1])
    ELSE r

\* after a commit that took the current cluster: "prev_boundary = None;
\* cluster_idx += 1; return self.start_new_line()"
ConsumeAndStart(r) ==
    IF r.ret = "some"
    THEN NewLineStarted([r EXCEPT !.st.prev_boundary = None,
                                  !.st.cluster_idx = @ + 1])
    ELSE r

\* after the commit of the line stored at the boundary prev: "run_idx =
\* prev.run_idx; cluster_idx = prev.cluster_idx; return self.start_new_line()"
RewrapAndStart(r, prev) ==
    IF r.ret = "some"
    THEN NewLineStarted([r EXCEPT !.st.run_idx = prev.run_idx,
                                  !.st.cluster_idx = prev.cluster_idx,
                                  !.g.rewrap = Some(prev)])
    ELSE r

\* the pending line extended by the current cluster(s)
Extended(st, next_x) ==
    [st.line EXCEPT !.runs.end = st.run_idx + 1,
                    !.clusters.end = st.cluster_idx + 1,
                    !.x = next_x]

\* the overflow with a previous boundary prev, already taken out of the state:
\* accept the overflowing fragment when rewrapping would cycle, else rewrap
AtPrevBoundary(b, prev, next_x, max_advance, alignment, overflow_checks) ==
    IF RewrapWouldCycle(prev)
    THEN ConsumeAndStart(AfterCommit([b EXCEPT !.st.cluster_idx = @ + 1],
             commit_line(b.lines, b.items, Extended(b.st, next_x),
                         max_advance, alignment, "Emergency", overflow_checks)))
    ELSE RewrapAndStart(AfterCommit(b,
             commit_line(b.lines, b.items, prev.state,
                         max_advance, alignment, "Regular", overflow_checks)), prev)

\* the commit of the emergency line break
EmergencyCommit(b, max_advance, alignment, overflow_checks) ==
    ConsumeAndStart(AfterCommit(b,
        commit_line(b.lines, b.items, b.st.line,
                    max_advance, alignment, "Emergency", overflow_checks)))

\* emergency line break: an empty pending line takes the cluster first
Emergency(b, next_x, max_advance, alignment, overflow_checks) ==
    EmergencyCommit(IF b.st.line.x = 0
                    THEN [b EXCEPT !.st.line = Extended(b.st, next_x),
                                   !.st.cluster_idx = @ + 1]
                    ELSE b,
                    max_advance, alignment, overflow_checks)

\* "if next_x > max_advance { ... } else { ... }" with its three overflow
\* branches
Decide(b, is_space, next_x, max_advance, alignment, overflow_checks) ==
    IF Fits(next_x, max_advance)
    THEN [b EXCEPT !.st.line = [Extended(b.st, next_x) EXCEPT !.num_spaces =
                                   IF is_space THEN @ + 1 ELSE @],
                   !.st.cluster_idx = @ + 1]
    ELSE IF is_space
    THEN \* hang overflowing whitespace
         ConsumeAndStart(AfterCommit(b,
             commit_line(b.lines, b.items, Extended(b.st, next_x),
                         max_advance, alignment, "Regular", overflow_checks)))
    ELSE IF IsSome(b.st.prev_boundary)
    THEN AtPrevBoundary([b EXCEPT !.st.prev_boundary = None],
                        Unwrap(b.st.prev_boundary), next_x, max_advance, alignment, overflow_checks)
    ELSE Emergency(b, next_x, max_advance, alignment, overflow_checks)

\* the loop body once the sweep sw is made: cluster_idx is where the sweep
\* stopped, and "next_x = self.state.line.x + advance"
Place(b, k, sw, max_advance, alignment, overflow_checks) ==
    Decide([b EXCEPT !.st.cluster_idx = sw.cluster_idx,
                     !.g.probe = Some([start |-> k, last |-> sw.cluster_idx,
                                       advance |-> sw.advance,
                                       x |-> b.st.line.x])],
           IsSpaceOrNbsp(k), b.st.line.x + sw.advance, max_advance, alignment, overflow_checks)

\* The part of the loop body after the boundary handling
\* (from "self.state.line.skip_mandatory_break = false" on).
AdvanceStep(b, k, max_advance, alignment, overflow_checks) ==
    Place([b EXCEPT !.st.line.skip_mandatory_break = FALSE], k,
          IF Cl(k).ligature = "start"
          THEN LigatureSweep(Rn(b.st.run_idx), b.st.cluster_idx, Cl(k).advance)
          ELSE [cluster_idx |-> b.st.cluster_idx, advance |-> Cl(k).advance],
          max_advance, alignment, overflow_checks)

\* after the commit at a mandatory break: return the line, or go on with the
\* cluster when nothing was committed
MandatoryCommitted(r, k, max_advance, alignment, overflow_checks) ==
    IF r.ret = "some" THEN NewLineStarted(r)
    ELSE IF r.ret = "panic" THEN r
    ELSE AdvanceStep(r, k, max_advance, alignment, overflow_checks)

\* the loop body at the cluster k = run.get(cluster_idx - cluster_start),
\* -1 when unwrap panics
AtCluster(b, k, max_advance, alignment, overflow_checks) ==
    IF k = -1 THEN [b EXCEPT !.ret = "panic"]
    ELSE IF Cl(k).boundary = "Mandatory" /\ ~b.st.line.skip_mandatory_break
    THEN MandatoryCommitted(
             AfterCommit([b EXCEPT !.st.prev_boundary = None],
                 commit_line(b.lines, b.items,
                             [b.st.line EXCEPT !.runs.end = b.st.run_idx + 1,
                                               !.clusters.end = b.st.cluster_idx,
                                               !.skip_mandatory_break = TRUE],
                             max_advance, alignment, "Explicit", overflow_checks)),
             k, max_advance, alignment, overflow_checks)
    ELSE IF Cl(k).boundary = "Line" /\ Cl(k).ligature # "cont"
    THEN AdvanceStep([b EXCEPT !.st.prev_boundary =
                         Some([run_idx |-> b.st.run_idx,
                               cluster_idx |-> b.st.cluster_idx,
                               state |-> b.st.line])],
                     k, max_advance, alignment, overflow_checks)
    ELSE AdvanceStep(b, k, max_advance, alignment, overflow_checks)

\* One iteration of the inner loop of break_next (over the clusters of a run);
\* "cluster_idx - cluster_start" below zero panics with overflow checks and
\* wraps without them, where run.get wraps back to cluster_idx.
ClusterStep(b, max_advance, alignment, overflow_checks) ==
    AtCluster(b,
              IF \/ b.st.cluster_idx >= Rn(b.st.run_idx).cluster_range.start
                 \/ ~overflow_checks
              THEN RunGet(Rn(b.st.run_idx),
                          b.st.cluster_idx - Rn(b.st.run_idx).cluster_range.start)
              ELSE -1,
              max_advance, alignment, overflow_checks)

\* a breaker that returns its last line without setting done
FinalCommittedNotDone(r) ==
    IF r.ret = "some" THEN NewLineStarted(r)
    ELSE IF r.ret = "cont" THEN [r EXCEPT !.ret = "none"]
    ELSE r

\* after the last commit_line of break_next: "self.state.done = true; return
\* self.start_new_line()", or None
FinalCommitted(r) ==
    IF r.ret = "some" THEN NewLineStarted([r EXCEPT !.done = TRUE])
    ELSE IF r.ret = "cont" THEN [r EXCEPT !.ret = "none"]
    ELSE r

\* The code after the loops of break_next: commit what is pending.
FinalCommit(b, max_advance, alignment, overflow_checks) ==
    FinalCommitted(AfterCommit(b,
        commit_line(b.lines, b.items,
                    IF b.st.line.runs.end = 0
                    THEN [b.st.line EXCEPT !.runs.end = 1] ELSE b.st.line,
                    max_advance, alignment, "None", overflow_checks)))

\* iterations a break_next call may take in the model before it is
\* reported as diverging
IterBudget == 4 * (NumClusters + NumRuns) + 4

RECURSIVE BreakLoop(_, _, _, _)
\* the loop after an iteration that left r: a return ends it
Continue(r, max_advance, alignment, overflow_checks) ==
    IF r.ret = "cont" THEN BreakLoop(r, max_advance, alignment, overflow_checks) ELSE r

\* The two nested while loops of break_next.
BreakLoop(b, max_advance, alignment, overflow_checks) ==
    IF b.g.iters >= IterBudget THEN [b EXCEPT !.ret = "diverge"]
    ELSE IF b.st.run_idx >= NumRuns THEN FinalCommit(b, max_advance, alignment, overflow_checks)
    ELSE IF b.st.cluster_idx >= Rn(b.st.run_idx).cluster_range.end
    THEN BreakLoop([b EXCEPT !.st.run_idx = @ + 1, !.g.iters = @ + 1],
                   max_advance, alignment, overflow_checks)
    ELSE Continue(ClusterStep([b EXCEPT !.g.iters = @ + 1], max_advance, alignment, overflow_checks),
                  max_advance, alignment, overflow_checks)

\* break_next on a breaker that is not done
break_next(ls, its, st, max_advance, alignment, overflow_checks) ==
    BreakLoop(Ctx(ls, its, st, "cont", FALSE, NoProbe), max_advance, alignment, overflow_checks)

\* ------------------------------------------------------------------------
\* reorder_line_items
\* ------------------------------------------------------------------------
RECURSIVE MaxLevelOf(_, _, _)
\* max_level after the scan of runs[i..]
MaxLevelOf(its, i, acc) ==
    IF i > Len(its) THEN acc
    ELSE MaxLevelOf(its, i + 1,
                    IF its[i].bidi_level > acc THEN its[i].bidi_level ELSE acc)

RECURSIVE LowestOddLevelOf(_, _, _)
\* lowest_odd_level after the scan of runs[i..]
LowestOddLevelOf(its, i, acc) ==
    IF i > Len(its) THEN acc
    ELSE LowestOddLevelOf(its, i + 1,
                          IF its[i].bidi_level % 2 # 0 /\ its[i].bidi_level < acc
                          THEN its[i].bidi_level ELSE acc)

RECURSIVE LevelRunEndAbove(_, _, _)
\* an inner loop that stops at an item of exactly the level
LevelRunEndAbove(its, end, level) ==
    IF end < Len(its) /\ its[end + 1].bidi_level > level
    THEN LevelRunEndAbove(its, end + 1, level) ELSE end

RECURSIVE LevelRunEnd(_, _, _)
\* the inner "while end < run_count && runs[end].bidi_level >= level"
\* (0-based end)
LevelRunEnd(its, end, level) ==
    IF end < Len(its) /\ its[end + 1].bidi_level >= level
    THEN LevelRunEnd(its, end + 1, level) ELSE end

\* runs[i..end) reversed in place (the swap loop), 0-based i and end
ReverseSlice(its, i, end) ==
    [p \in 1..Len(its) |->
        IF p - 1 >= i /\ p - 1 < end THEN its[(i + end - 1 - (p - 1)) + 1]
        ELSE its[p]]

RECURSIVE ReorderPass(_, _, _)
\* the "while i < run_count" loop for one level
ReorderPass(its, i, level) ==
    IF i >= Len(its) THEN its
    ELSE IF its[i + 1].bidi_level >= level
    THEN LET end == LevelRunEnd(its, i + 1, level)
         IN ReorderPass(ReverseSlice(its, i, end), end + 1, level)
    ELSE ReorderPass(its, i + 1, level)

RECURSIVE ReorderLevels(_, _, _)
\* the loop "for level in (lowest_odd_level..=max_level).rev()"
ReorderLevels(its, level, lowest) ==
    IF level < lowest THEN its
    ELSE ReorderLevels(ReorderPass(its, 0, level), level - 1, lowest)

\* reorder_line_items(runs)
reorder_line_items(its) ==
    ReorderLevels(its, MaxLevelOf(its, 1, 0), LowestOddLevelOf(its, 1, 255))

\* ------------------------------------------------------------------------
\* finish, unjustify, drop
\* ------------------------------------------------------------------------
\* usize::MAX (the initial text_range.start of a line in finish)
USIZE_MAX == 2000000000

\* slice[range] of a 1-based sequence, for a 0-based half-open range
Slice(seq, r) == [p \in 1..RangeLen(r) |-> seq[r.start + p]]

\* the sequence seq with seq[range] replaced by sl
SetSlice(seq, r, sl) ==
    [p \in 1..Len(seq) |->
        IF p - 1 >= r.start /\ p - 1 < r.end THEN sl[p - r.start] ELSE seq[p]]

\* the cluster indices of a line item in the order the code visits them:
\* forwards for even bidi levels, backwards for odd ones
VisitOrder(item) ==
    LET r == item.cluster_range
    IN [p \in 1..RangeLen(r) |->
           IF item.bidi_level % 2 # 0 THEN r.end - p ELSE r.start + p - 1]

\* the order in which finish scans a line item for trailing whitespace:
\* forwards for odd bidi levels, backwards for even ones
TrailingScanOrder(item) ==
    LET r == item.cluster_range
    IN [p \in 1..RangeLen(r) |->
           IF item.bidi_level % 2 # 0 THEN r.start + p - 1 ELSE r.end - p]

\* first loop of finish: is_whitespace / has_trailing_whitespace of an item;
\* is_whitespace is computed anew, has_trailing_whitespace is only ever set
ClassifyItem(item) ==
    LET ord == TrailingScanOrder(item)
    IN [item EXCEPT
          !.is_whitespace = \A p \in 1..Len(ord) : IsWhitespace(ord[p]),
          !.has_trailing_whitespace = @ \/ (Len(ord) >= 1 /\ IsWhitespace(ord[1]))]

RECURSIVE SumAdvance(_, _, _)
\* sum of cls[k].advance for s <= k < e
SumAdvance(cls, s, e) ==
    IF s >= e THEN 0 ELSE cls[s + 1].advance + SumAdvance(cls, s + 1, e)

RECURSIVE SpaceTargets(_, _, _, _)
\* The space/nbsp clusters that the justification loops adjust, in order:
\* the items in line order, each in VisitOrder, until num_spaces are found.
SpaceTargets(sl, i, num_spaces, acc) ==
    IF i > Len(sl) \/ Len(acc) >= num_spaces THEN acc
    ELSE LET ord == VisitOrder(sl[i])
             sp == SelectSeq(ord, LAMBDA k : IsSpaceOrNbsp(k))
             room == num_spaces - Len(acc)
         IN SpaceTargets(sl, i + 1, num_spaces,
                         acc \o (IF Len(sp) > room THEN SubSeq(sp, 1, room) ELSE sp))

\* cluster.advance += delta for every visit in targets
AdjustAdvances(cls, targets, delta) ==
    [p \in 1..Len(cls) |->
        [cls[p] EXCEPT !.advance =
            @ + delta * Cardinality({q \in 1..Len(targets) : targets[q] = p - 1})]]

\* f32 division, rounded towards zero; exact for the values of the model,
\* whose dividends are multiples of the divisor
Div(a, b) == IF a >= 0 THEN a \div b ELSE -((-a) \div b)

\* (leading * 0.5).round() * 2. for an integral, non-negative leading
RoundLeading(l) == 2 * ((l + 1) \div 2)

\* LineItemData::compute_line_height: the line height of the item's style
compute_line_height(item) == Rn(item.index).line_height

\* LineMetrics::size
LineSize(ln) == ln.ascent + ln.descent + ln.leading

RECURSIVE MaxOver(_, _, _)
\* fold of f32::max over seq, from acc
MaxOver(seq, i, acc) ==
    IF i > Len(seq) THEN acc ELSE MaxOver(seq, i + 1, Max(acc, seq[i]))

RECURSIVE MinOver(_, _, _)
MinOver(seq, i, acc) ==
    IF i > Len(seq) THEN acc ELSE MinOver(seq, i + 1, Min(acc, seq[i]))

\* a finish that takes every max_advance for a width limit
HasFiniteWidthAlways(max_advance) == TRUE

\* "line.max_advance.is_finite() && line.max_advance < f32::MAX"
HasFiniteWidth(max_advance) == max_advance < INFINITY /\ max_advance < F32_MAX

\* the items of a line whose metrics count: all but the trailing run of
\* whitespace items ("for line_item in line_items.iter_mut().rev()")
Counted(sl) ==
    {p \in 1..Len(sl) : \E q \in p..Len(sl) : ~sl[q].is_whitespace}

\* the maximum over the counted items of a font metric times the line height
LineMetric(sl, counted, f) ==
    MaxOver([p \in 1..Len(sl) |->
                IF p \in counted
                THEN Rn(sl[p].index)[f] * compute_line_height(sl[p]) ELSE 0], 1, 0)

\* the line with the text range and the metrics of its counted items
MeasuredLine(ln, sl, counted) ==
    [ln EXCEPT
       !.text_range =
           Range(MinOver([p \in 1..Len(sl) |-> sl[p].text_range.start], 1, USIZE_MAX),
                 MaxOver([p \in 1..Len(sl) |-> sl[p].text_range.end], 1,
                         ln.text_range.end)),
       !.ascent = LineMetric(sl, counted, "ascent"),
       !.descent = LineMetric(sl, counted, "descent"),
       !.leading = LineMetric(sl, counted, "leading")]

\* "line_item.advance = ..." for the counted items
WithAdvances(sl, counted, cls) ==
    [p \in 1..Len(sl) |->
        IF p \in counted
        THEN [sl[p] EXCEPT !.advance =
                 SumAdvance(cls, sl[p].cluster_range.start, sl[p].cluster_range.end)]
        ELSE sl[p]]

\* a finish that reverses the items of every line
ReorderedAlways(sl) == [p \in 1..Len(sl) |-> sl[Len(sl) + 1 - p]]

\* "if needs_reorder && run_count > 1 { reorder_line_items(...) }"
Reordered(sl) ==
    IF (\E p \in 1..Len(sl) : sl[p].bidi_level # 0) /\ Len(sl) > 1
    THEN reorder_line_items(sl) ELSE sl

\* "trailing_whitespace": taken from the last item of the line
TrailingWhitespace(sl, cls) ==
    IF Len(sl) = 0 THEN 0
    ELSE IF RangeIsEmpty(sl[Len(sl)].cluster_range) THEN 0
    ELSE IF IsSpaceOrNbsp(sl[Len(sl)].cluster_range.end - 1)
    THEN cls[sl[Len(sl)].cluster_range.end].advance
    ELSE 0

\* "free_space = max_advance - advance + trailing_whitespace"
FreeSpace(ln, trailing_whitespace) ==
    ln.max_advance - ln.advance + trailing_whitespace

\* "if has_finite_width && free_space > 0."
Aligned(ln, free_space) == HasFiniteWidth(ln.max_advance) /\ free_space > 0

\* a finish that aligns without looking at the sign of free_space
OffsetUnguarded(ln, free_space) ==
    IF HasFiniteWidth(ln.max_advance) /\ ln.alignment = "End" THEN free_space
    ELSE IF HasFiniteWidth(ln.max_advance) /\ ln.alignment = "Middle"
    THEN Div(free_space, 2)
    ELSE 0

\* line.metrics.offset
Offset(ln, free_space) ==
    IF Aligned(ln, free_space) /\ ln.alignment = "End" THEN free_space
    ELSE IF Aligned(ln, free_space) /\ ln.alignment = "Middle"
    THEN Div(free_space, 2)
    ELSE 0

\* a finish that justifies the last line of a paragraph too
JustifiedAnyReason(ln, sl, cls, free_space) ==
    IF /\ Aligned(ln, free_space)
       /\ ln.alignment = "Justified"
       /\ ln.num_spaces # 0
    THEN AdjustAdvances(cls, SpaceTargets(sl, 1, ln.num_spaces, << >>),
                        Div(free_space, ln.num_spaces))
    ELSE cls

\* the clusters after the Justified arm of finish
Justified(ln, sl, cls, free_space) ==
    IF /\ Aligned(ln, free_space)
       /\ ln.alignment = "Justified"
       /\ ln.break_reason # "None"
       /\ ln.num_spaces # 0
    THEN AdjustAdvances(cls, SpaceTargets(sl, 1, ln.num_spaces, << >>),
                        Div(free_space, ln.num_spaces))
    ELSE cls

\* a line consisting entirely of whitespace takes the metrics of its first run
WithFallback(ln, sl, have_metrics) ==
    IF ~have_metrics /\ Len(sl) > 0
    THEN [ln EXCEPT !.ascent = Rn(sl[1].index).ascent,
                    !.descent = Rn(sl[1].index).descent,
                    !.leading = Rn(sl[1].index).leading]
    ELSE ln

\* the rounding of the metrics and "baseline = y + above"
RoundedLine(ln, y) ==
    [ln EXCEPT !.leading = RoundLeading(@),
               !.baseline = y + ln.ascent + RoundLeading(ln.leading) \div 2]

\* the results of the loop body; "y = baseline + below"
FinishResult(ln, its, cls) ==
    [line |-> ln, items |-> its, clusters |-> cls,
     y |-> ln.baseline + ln.descent + ln.leading \div 2]

\* the loop body once trailing_whitespace is known
FinishSpaced(ln, its, cls, y, sl, have_metrics, trailing_whitespace) ==
    FinishResult(
        RoundedLine([WithFallback(ln, sl, have_metrics) EXCEPT
                        !.trailing_whitespace = trailing_whitespace,
                        !.offset = Offset(ln, FreeSpace(ln, trailing_whitespace))],
                    y),
        SetSlice(its, ln.run_range, sl),
        Justified(ln, sl, cls, FreeSpace(ln, trailing_whitespace)))

\* the loop body once the items that count for the metrics are known
FinishCounted(ln, its, cls, y, sl, counted) ==
    FinishSpaced(MeasuredLine(ln, sl, counted), its, cls, y,
                 Reordered(WithAdvances(sl, counted, cls)), counted # {},
                 TrailingWhitespace(Reordered(WithAdvances(sl, counted, cls)), cls))

\* The body of the loop of finish over the lines, for one line:
\*   [line, items, clusters, y]
FinishLine(ln, its, cls, y) ==
    FinishCounted(ln, its, cls, y, Slice(its, ln.run_range),
                  Counted(Slice(its, ln.run_range)))

RECURSIVE FinishLines(_, _, _, _, _)
\* the loop of finish after the body left r for line i
FinishLinesNext(ls, i, r) ==
    FinishLines([ls EXCEPT ![i] = r.line], r.items, r.clusters, i + 1, r.y)

\* the loop of finish over the lines: [lines, items, clusters]
FinishLines(ls, its, cls, i, y) ==
    IF i > Len(ls) THEN [lines |-> ls, items |-> its, clusters |-> cls]
    ELSE FinishLinesNext(ls, i, FinishLine(ls[i], its, cls, y))

\* BreakLines::finish: [lines, items, clusters]
finish(ls, its, cls) ==
    FinishLines(ls, [p \in 1..Len(its) |-> ClassifyItem(its[p])], cls, 1, 0)

\* the adjustment unjustify removes from a line
UnjustifyApplies(ln) ==
    /\ ln.alignment = "Justified"
    /\ HasFiniteWidth(ln.max_advance)
    /\ ln.break_reason # "None"
    /\ ln.num_spaces # 0

RECURSIVE UnjustifyLines(_, _, _, _)
\* the loop of unjustify over layout.lines
UnjustifyLines(ls, its, cls, i) ==
    IF i > Len(ls) THEN cls
    ELSE LET ln == ls[i]
             extra == ln.max_advance - ln.advance + ln.trailing_whitespace
         IN UnjustifyLines(ls, its,
                IF UnjustifyApplies(ln)
                THEN AdjustAdvances(cls,
                         SpaceTargets(Slice(its, ln.run_range), 1, ln.num_spaces, << >>),
                         -Div(extra, ln.num_spaces))
                ELSE cls,
                i + 1)

\* unjustify(layout): the clusters afterwards
unjustify(ls, its, cls) == UnjustifyLines(ls, its, cls, 1)

RECURSIVE SumSizes(_, _)
\* sum of line.metrics.size() over ls[i..]
SumSizes(ls, i) == IF i > Len(ls) THEN 0 ELSE LineSize(ls[i]) + SumSizes(ls, i + 1)

\* a drop that measures the width with the trailing whitespace
DropSizeWithWhitespace(ls) ==
    [width |-> MaxOver([p \in 1..Len(ls) |-> ls[p].advance], 1, 0),
     full_width |-> MaxOver([p \in 1..Len(ls) |-> ls[p].advance], 1, 0),
     height |-> SumSizes(ls, 1)]

\* Drop for BreakLines: layout.width, layout.full_width, layout.height
DropSize(ls) ==
    [width |-> MaxOver([p \in 1..Len(ls) |->
                           ls[p].advance - ls[p].trailing_whitespace], 1, 0),
     full_width |-> MaxOver([p \in 1..Len(ls) |-> ls[p].advance], 1, 0),
     height |-> SumSizes(ls, 1)]

\* ------------------------------------------------------------------------
\* TreeStyleBuilder
\* ------------------------------------------------------------------------
\* ResolvedStyle, reduced to two of its fields
Styles == [font_weight : {400, 700}, font_size : {12, 16}]

\* ResolvedProperty
Properties ==
    {[field |-> "font_weight", value |-> w] : w \in {400, 700}}
    \cup {[field |-> "font_size", value |-> z] : z \in {12, 16}}

\* ResolvedStyle::apply(property)
apply(style, prop) ==
    IF prop.field = "font_weight" THEN [style EXCEPT !.font_weight = prop.value]
    ELSE [style EXCEPT !.font_size = prop.value]

RECURSIVE ApplyAll(_, _, _)
\* "for prop in properties { new_style.apply(prop.clone()); }"
ApplyAll(style, props, i) ==
    IF i > Len(props) THEN style ELSE ApplyAll(apply(style, props[i]), props, i + 1)

\* StyleTreeNode::span(parent, style)
SpanNode(parent, style) ==
    [parent |-> parent, kind |-> "Span", style |-> style, text_range |-> Range(0, 0)]

\* StyleTreeNode::text(parent, text_range); the style field is unused
TextNode(parent, text_range) ==
    [parent |-> Some(parent), kind |-> "Text",
     style |-> [font_weight |-> 0, font_size |-> 0], text_range |-> text_range]

\* the builder as a value: its five fields, and whether a call on it panicked
Builder ==
    [tree |-> tree, flatted_styles |-> flatted_styles, current_span |-> current_span,
     total_text_len |-> total_text_len, text_last_pushed_at |-> text_last_pushed_at,
     panic |-> FALSE]

\* self.tree[self.current_span] exists
CursorInTree(b) == b.current_span < Len(b.tree)

\* self.tree[self.current_span].data.as_span().unwrap() succeeds
HasCurrentStyle(b) ==
    CursorInTree(b) /\ b.tree[b.current_span + 1].kind = "Span"

\* current_style()
current_style(b) == b.tree[b.current_span + 1].style

\* a flush that emits the pending text but leaves text_last_pushed_at behind
FlushKeepsMark(b) ==
    IF b.total_text_len > b.text_last_pushed_at
    THEN IF ~HasCurrentStyle(b) THEN [b EXCEPT !.panic = TRUE]
         ELSE [b EXCEPT !.flatted_styles =
                   Append(@, [style |-> current_style(b),
                              range |-> Range(b.text_last_pushed_at, b.total_text_len)])]
    ELSE b

\* "if self.total_text_len > self.text_last_pushed_at { ... }": the pending
\* text is emitted with the current style
Flush(b) ==
    IF b.total_text_len > b.text_last_pushed_at
    THEN IF ~HasCurrentStyle(b) THEN [b EXCEPT !.panic = TRUE]
         ELSE [b EXCEPT !.flatted_styles =
                   Append(@, [style |-> current_style(b),
                              range |-> Range(b.text_last_pushed_at, b.total_text_len)]),
                        !.text_last_pushed_at = b.total_text_len]
    ELSE b

\* begin(root_style)
begin(b, root_style) ==
    [b EXCEPT !.tree = << SpanNode(None, root_style) >>,
              !.flatted_styles = << >>,
              !.current_span = 0,
              !.total_text_len = 0,
              !.text_last_pushed_at = 0]

\* a push_style_span that does not emit the pending text first
PushStyleSpanUnflushed(b, style) ==
    [b EXCEPT !.tree = Append(@, SpanNode(Some(b.current_span), style)),
              !.current_span = Len(b.tree)]

\* push_style_span(style)
push_style_span(b, style) ==
    LET f == Flush(b)
    IN IF f.panic THEN f
       ELSE [f EXCEPT !.tree = Append(@, SpanNode(Some(f.current_span), style)),
                      !.current_span = Len(f.tree)]

\* push_style_modification_span(properties)
push_style_modification_span(b, properties) ==
    IF ~HasCurrentStyle(b) THEN [b EXCEPT !.panic = TRUE]
    ELSE LET new_style == ApplyAll(current_style(b), properties, 1)
             f == Flush(b)
         IN IF f.panic THEN f
            ELSE [f EXCEPT !.tree = Append(@, SpanNode(Some(f.current_span), new_style)),
                           !.current_span = Len(f.tree)]

\* a pop_style_span that leaves the cursor at the root when no span is open
PopStyleSpanSilent(b) ==
    IF Flush(b).panic \/ ~CursorInTree(Flush(b))
    THEN [Flush(b) EXCEPT !.panic = TRUE]
    ELSE IF ~IsSome(Flush(b).tree[Flush(b).current_span + 1].parent)
    THEN Flush(b)
    ELSE [Flush(b) EXCEPT
             !.current_span = Unwrap(Flush(b).tree[Flush(b).current_span + 1].parent)]

\* pop_style_span()
pop_style_span(b) ==
    LET f == Flush(b)
    IN IF f.panic THEN f
       ELSE IF ~CursorInTree(f) THEN [f EXCEPT !.panic = TRUE]
       ELSE IF ~IsSome(f.tree[f.current_span + 1].parent)
       THEN \* expect("Popped root style")
            [f EXCEPT !.panic = TRUE]
       ELSE [f EXCEPT !.current_span = Unwrap(f.tree[f.current_span + 1].parent)]

\* push_text(len); total_text_len + len overflows on a builder that was not
\* begun: the addition panics when overflow checks are on and wraps otherwise
push_text(b, len, overflow_checks) ==
    IF len = 0 THEN b
    ELSE LET start == b.total_text_len
             sum == b.total_text_len + len
         IN IF sum > USIZE_MAX /\ overflow_checks THEN [b EXCEPT !.panic = TRUE]
            ELSE LET end == sum % (USIZE_MAX + 1)
                 IN [b EXCEPT !.tree = Append(@, TextNode(b.current_span, Range(start, end))),
                              !.total_text_len = end]

RECURSIVE PopToRoot(_)
\* "while let Some(_) = self.tree[self.current_span].parent { self.pop_style_span(); }"
PopToRoot(b) ==
    IF b.panic THEN b
    ELSE IF ~CursorInTree(b) THEN [b EXCEPT !.panic = TRUE]
    ELSE IF IsSome(b.tree[b.current_span + 1].parent) THEN PopToRoot(pop_style_span(b))
    ELSE b

\* TreeStyleBuilder::finish(styles): [b, styles]
tree_finish(b, out) ==
    IF b.total_text_len = USIZE_MAX
    THEN [b |-> [b EXCEPT !.current_span = USIZE_MAX, !.tree = << >>], styles |-> out]
    ELSE LET f == Flush(PopToRoot(b))
         IN [b |-> f, styles |-> IF f.panic THEN out ELSE f.flatted_styles]

\* ------------------------------------------------------------------------
\* Layouts (what the shaper hands to the breaker)
\* ------------------------------------------------------------------------
\* a shaped cluster
Cluster(advance, boundary, whitespace, ligature) ==
    [advance |-> advance, boundary |-> boundary, whitespace |-> whitespace,
     ligature |-> ligature]

\* font metrics of run r (ascent, descent, leading) and its style's line height
RunData(r, s, e, level) ==
    [cluster_range |-> Range(s, e), bidi_level |-> level,
     ascent |-> 3 + r, descent |-> 1, leading |-> r, line_height |-> 1]

\* the k-th smallest element of a set of numbers
RECURSIVE Nth(_, _)
Nth(S, k) ==
    LET m == CHOOSE x \in S : \A y \in S : x <= y
    IN IF k = 1 THEN m ELSE Nth(S \ {m}, k - 1)

\* the runs that split n clusters at the cut points in C, with the levels lv
RunsOf(n, C, lv) ==
    [r \in 1..(Cardinality(C) + 1) |->
        RunData(r - 1,
                IF r = 1 THEN 0 ELSE Nth(C, r - 1),
                IF r = Cardinality(C) + 1 THEN n ELSE Nth(C, r),
                lv[r])]

\* every way to split n >= 1 clusters into at most RunLimit non-empty runs
RunSplits(n, RunLimit, Levels) ==
    UNION {{RunsOf(n, C, lv) : lv \in [1..(Cardinality(C) + 1) -> Levels]} :
              C \in {D \in SUBSET (1..(n - 1)) : Cardinality(D) < RunLimit}}

\* max_advance values offered to break_next
MaxAdvances == {a * Unit : a \in 1..MaxAdvanceUnits} \cup {INFINITY}

\* the breaker's fields while no BreakLines value exists
NoHist ==
    [op |-> "init", ret |-> "none", pre |-> << >>, prev_ret |-> "none",
     probe |-> None, rewrap |-> None]

\* a snapshot of the breaker, kept in hist
Snapshot ==
    << [lines |-> lines, items |-> line_items, state |-> state, done |-> done] >>

\* RangedStyleBuilder::default(): no paragraph is begun
RangedDefault ==
    [len |-> USIZE_MAX, default_style |-> [font_weight |-> 400, font_size |-> 16],
     properties |-> << >>]

\* TreeStyleBuilder::default()
TreeDefault ==
    /\ tree = << >>
    /\ flatted_styles = << >>
    /\ current_span = USIZE_MAX
    /\ total_text_len = USIZE_MAX
    /\ text_last_pushed_at = 0
    /\ styles = << >>
    /\ tb = [op |-> "default", panicked |-> FALSE, begins |-> 0,
             open |-> << >>, expect |-> << >>]

\* clusters k and k+1 (1-based) lie in the same run
SameRun(rns, k) ==
    \E r \in 1..Len(rns) :
        /\ rns[r].cluster_range.start <= k - 1
        /\ k < rns[r].cluster_range.end

\* a ligature is a start cluster followed, inside the same run, by one or
\* more continuation clusters
WellFormedLigatures(cls, rns) ==
    \A k \in 1..Len(cls) :
        /\ cls[k].ligature = "cont" =>
              /\ k > 1
              /\ cls[k - 1].ligature \in {"start", "cont"}
              /\ SameRun(rns, k - 1)
        /\ cls[k].ligature = "start" =>
              /\ k < Len(cls)
              /\ cls[k + 1].ligature = "cont"
              /\ SameRun(rns, k)

\* the layout after build_into_layout, before any BreakLines is constructed
BuiltLayout(Lengths, RunLimit, Kinds, Levels) ==
    /\ \E n \in Lengths :
          IF n = 0
          THEN \* the empty text: one run without clusters, text_len 0
               /\ clusters = << >>
               /\ runs = << RunData(0, 0, 0, 0) >>
          ELSE /\ clusters \in [1..n -> Kinds]
               /\ runs \in RunSplits(n, RunLimit, Levels)
    /\ WellFormedLigatures(clusters, runs)
    /\ text_len = Len(clusters)
    /\ shaped = [p \in 1..Len(clusters) |-> clusters[p].advance]
    /\ layout_lines = << >>
    /\ layout_items = << >>
    /\ layout_size = [width |-> 0, full_width |-> 0, height |-> 0]
    /\ alive = FALSE
    /\ lines = << >>
    /\ line_items = << >>
    /\ state = BreakerStateDefault
    /\ prev_state = None
    /\ done = FALSE
    /\ panicked = FALSE
    /\ passes = 0
    /\ hist = NoHist

\* a built layout of a text of one of Lengths clusters in at most RunLimit
\* runs, without inline boxes, fresh style builders, and the line items Items
\* offer to reorder_line_items
LayoutInit(Lengths, RunLimit, Kinds, Levels, Items) ==
    /\ BuiltLayout(Lengths, RunLimit, Kinds, Levels)
    /\ TreeDefault
    /\ reorder_in \in Items
    /\ reorder_out = None
    /\ lcx_inline_boxes = << >>
    /\ inline_boxes = << >>
    /\ ranged = RangedDefault
    /\ info_len = text_len

\* ------------------------------------------------------------------------
\* Operations
\* ------------------------------------------------------------------------
\* BreakLines::new(layout)
New ==
    /\ ~alive /\ ~panicked /\ passes <= MaxPasses
    /\ clusters' = unjustify(layout_lines, layout_items, clusters)
    /\ layout_size' = [layout_size EXCEPT !.width = 0, !.height = 0]
    /\ layout_lines' = << >>
    /\ layout_items' = << >>
    /\ lines' = << >>
    /\ line_items' = << >>
    /\ state' = BreakerStateDefault
    /\ prev_state' = None
    /\ done' = FALSE
    /\ alive' = TRUE
    /\ passes' = passes + 1
    /\ hist' = [NoHist EXCEPT !.op = "new"]
    /\ UNCHANGED << treeVars, reorderVars, boxVars, runs, text_len, panicked, shaped >>

\* the breaker after a break_next call that worked through to r
BreakNextReturned(r) ==
    /\ prev_state' = Some(state)
    /\ lines' = r.lines
    /\ line_items' = r.items
    /\ state' = r.st
    /\ done' = r.done
    /\ panicked' = (r.ret \in {"panic", "diverge"})
    /\ hist' = [NoHist EXCEPT !.op = "break_next", !.ret = r.ret,
                              !.pre = Snapshot, !.probe = r.g.probe,
                              !.rewrap = r.g.rewrap]

\* BreakLines::break_next(max_advance, alignment)
BreakNextWith(max_advance, alignment) ==
    /\ alive /\ ~panicked /\ passes <= MaxPasses
    /\ IF done
       THEN /\ hist' = [NoHist EXCEPT !.op = "break_next", !.pre = Snapshot]
            /\ UNCHANGED << lines, line_items, state, prev_state, done, panicked >>
       ELSE \E overflow_checks \in BOOLEAN :
               BreakNextReturned(break_next(lines, line_items, state,
                                            max_advance, alignment, overflow_checks))
    /\ UNCHANGED << treeVars, reorderVars, boxVars, runs, clusters, text_len, layout_lines, layout_items,
                    layout_size, alive, passes, shaped >>

\* what hist records of a revert: its result and, when it follows a
\* break_next directly, that call's result and the breaker before that call
RevertHist(ret) ==
    [NoHist EXCEPT !.op = "revert", !.ret = ret,
                   !.pre = IF hist.op = "break_next" THEN hist.pre ELSE << >>,
                   !.prev_ret = IF hist.op = "break_next" THEN hist.ret ELSE "none"]

\* a revert that forgets to truncate the line items
RevertKeepsItems ==
    /\ alive /\ ~panicked /\ passes <= MaxPasses
    /\ IF IsSome(prev_state)
       THEN /\ state' = Unwrap(prev_state)
            /\ prev_state' = None
            /\ lines' = SubSeq(lines, 1, Min(Len(lines), Unwrap(prev_state).lines))
            /\ done' = FALSE
            /\ hist' = RevertHist("true")
            /\ UNCHANGED line_items
       ELSE /\ hist' = RevertHist("false")
            /\ UNCHANGED << lines, line_items, state, prev_state, done >>
    /\ UNCHANGED << treeVars, reorderVars, boxVars, runs, clusters, text_len, layout_lines,
                    layout_items, layout_size, alive, panicked, passes, shaped >>

\* BreakLines::revert()
Revert ==
    /\ alive /\ ~panicked /\ passes <= MaxPasses
    /\ IF IsSome(prev_state)
       THEN /\ state' = Unwrap(prev_state)
            /\ prev_state' = None
            /\ lines' = SubSeq(lines, 1, Min(Len(lines), Unwrap(prev_state).lines))
            /\ line_items' = SubSeq(line_items, 1,
                                    Min(Len(line_items), Unwrap(prev_state).items))
            /\ done' = FALSE
            /\ hist' = RevertHist("true")
       ELSE /\ hist' = RevertHist("false")
            /\ UNCHANGED << lines, line_items, state, prev_state, done >>
    /\ UNCHANGED << treeVars, reorderVars, boxVars, runs, clusters, text_len, layout_lines, layout_items,
                    layout_size, alive, panicked, passes, shaped >>

\* the layout and the breaker after finish returned r and the breaker dropped
FinishReturned(r, op, ret) ==
    /\ clusters' = r.clusters
    /\ layout_lines' = r.lines
    /\ layout_items' = r.items
    /\ layout_size' = DropSize(r.lines)
    /\ alive' = FALSE
    /\ lines' = << >>
    /\ line_items' = << >>
    /\ state' = BreakerStateDefault
    /\ prev_state' = None
    /\ done' = FALSE
    /\ hist' = [NoHist EXCEPT !.op = op, !.ret = ret]
    /\ UNCHANGED << treeVars, reorderVars, boxVars, runs, text_len, panicked, passes, shaped >>

\* what finish and the drop of the breaker leave behind
FinishAndDrop(ls, its, op, ret) ==
    FinishReturned(finish(ls, its, clusters), op, ret)

\* BreakLines::finish(), which consumes (and so drops) the breaker
Finish ==
    /\ alive /\ ~panicked
    /\ FinishAndDrop(lines, line_items, "finish", "none")

\* a BreakLines dropped without finish
Drop ==
    /\ alive /\ ~panicked
    /\ layout_lines' = lines
    /\ layout_items' = line_items
    /\ layout_size' = DropSize(lines)
    /\ alive' = FALSE
    /\ lines' = << >>
    /\ line_items' = << >>
    /\ state' = BreakerStateDefault
    /\ prev_state' = None
    /\ done' = FALSE
    /\ hist' = [NoHist EXCEPT !.op = "drop"]
    /\ UNCHANGED << treeVars, reorderVars, boxVars, runs, clusters, text_len, panicked, passes, shaped >>

\* calls of break_next that break_remaining may make in the model before it
\* is reported as diverging
CallBudget == 2 * (NumClusters + 2)

RECURSIVE BreakRemainingLoop(_, _, _, _, _)
\* the while loop after a break_next that left r: Some goes round again
BreakRemainingNext(r, max_advance, alignment, calls, overflow_checks) ==
    IF r.ret = "some"
    THEN BreakRemainingLoop(r, max_advance, alignment, calls + 1, overflow_checks)
    ELSE r

\* "while self.break_next(max_advance, alignment).is_some() {}":
\* the Ctx of the last call
BreakRemainingLoop(b, max_advance, alignment, calls, overflow_checks) ==
    IF calls >= CallBudget THEN [b EXCEPT !.ret = "diverge"]
    ELSE IF b.done THEN [b EXCEPT !.ret = "none"]
    ELSE BreakRemainingNext(break_next(b.lines, b.items, b.st, max_advance, alignment, overflow_checks),
                            max_advance, alignment, calls, overflow_checks)

\* the end of break_remaining after its loop left r: self.finish() when the
\* loop ended; a panic in a break_next unwinds through the drop of the
\* breaker, which break_remaining owns, so that the lines committed so far
\* are written to the layout unfinished; a loop that does not end leaves the
\* breaker in the call
BreakRemainingReturned(r) ==
    IF r.ret = "none"
    THEN FinishAndDrop(r.lines, r.items, "break_remaining",
                       IF r.done THEN "done" ELSE "not_done")
    ELSE IF r.ret = "panic"
    THEN /\ panicked' = TRUE
         /\ layout_lines' = r.lines
         /\ layout_items' = r.items
         /\ layout_size' = DropSize(r.lines)
         /\ alive' = FALSE
         /\ lines' = << >>
         /\ line_items' = << >>
         /\ state' = BreakerStateDefault
         /\ prev_state' = None
         /\ done' = FALSE
         /\ hist' = [NoHist EXCEPT !.op = "break_remaining", !.ret = r.ret]
         /\ UNCHANGED << treeVars, reorderVars, boxVars, runs, clusters, text_len,
                         passes, shaped >>
    ELSE /\ panicked' = TRUE
         /\ lines' = r.lines
         /\ line_items' = r.items
         /\ state' = r.st
         /\ hist' = [NoHist EXCEPT !.op = "break_remaining", !.ret = r.ret]
         /\ UNCHANGED << treeVars, reorderVars, boxVars, runs, clusters, text_len, layout_lines, layout_items,
                         layout_size, alive, prev_state, done, passes, shaped >>

\* BreakLines::break_remaining(max_advance, alignment)
BreakRemainingWith(max_advance, alignment) ==
    /\ alive /\ ~panicked /\ passes <= MaxPasses
    /\ \E overflow_checks \in BOOLEAN :
          BreakRemainingReturned(
              BreakRemainingLoop(Ctx(lines, line_items, state, "cont", done, NoProbe),
                                 max_advance, alignment, 0, overflow_checks))

\* ------------------------------------------------------------------------
\* Specifications
\* ------------------------------------------------------------------------
NextBreak ==
    \/ New
    \/ \E ma \in MaxAdvances : BreakNextWith(ma, "Justified")
    \/ Revert
    \/ \E ma \in MaxAdvances : BreakRemainingWith(ma, "Justified")

\* Line breaking of left-to-right text without ligatures: letters of one unit
\* with any boundary class, wide letters, spaces, and a zero-width newline
SpecBreak ==
    LayoutInit(0..MaxClusters, MaxRuns,
               {Cluster(Unit, b, "None", "none") : b \in {"None", "Line", "Mandatory"}}
               \cup {Cluster(2 * Unit, "None", "None", "none")}
               \cup {Cluster(Unit, b, "Space", "none") : b \in {"None", "Line"}}
               \cup {Cluster(0, "Mandatory", "Newline", "none")},
               {0}, {<< >>})
    /\ [][NextBreak]_vars

NextLigature ==
    \/ New
    \/ \E ma \in MaxAdvances : BreakNextWith(ma, "Start")

\* Line breaking of left-to-right text with ligatures: letters, spaces, and
\* the clusters of ligatures
SpecLigature ==
    LayoutInit(0..MaxClusters, MaxRuns,
               {Cluster(Unit, b, "None", "none") : b \in {"None", "Line"}}
               \cup {Cluster(Unit, "None", "Space", "none")}
               \cup {Cluster(Unit, b, "None", "start") : b \in {"None", "Line"}}
               \cup {Cluster(Unit, "None", "None", "cont")},
               {0}, {<< >>})
    /\ [][NextLigature]_vars

NextLongLigature ==
    \/ New
    \/ \E ma \in {a * Unit : a \in 1..MaxLigatureClusters} \cup {INFINITY} :
          BreakRemainingWith(ma, "Start")

\* Line breaking of a longer left-to-right text made of letters and ligatures,
\* where a ligature may begin a paragraph (its start cluster is Mandatory)
SpecLongLigature ==
    LayoutInit({MaxLigatureClusters}, MaxLigatureRuns,
               {Cluster(Unit, "None", "None", "none"),
                Cluster(Unit, "None", "None", "start"),
                Cluster(Unit, "Mandatory", "None", "start"),
                Cluster(Unit, "None", "None", "cont")},
               {0}, {<< >>})
    /\ [][NextLongLigature]_vars

NextRunLigature ==
    \/ New
    \/ \E ma \in {a * Unit : a \in 1..MaxRunLigatureAdvanceUnits} :
          BreakNextWith(ma, "Start")

\* Line breaking, one line at a time, of a left-to-right text in several runs,
\* made of letters with a break opportunity before them and of ligatures
SpecRunLigature ==
    LayoutInit({MaxRunLigatureClusters - 1, MaxRunLigatureClusters},
               MaxLigatureRuns,
               {Cluster(Unit, "Line", "None", "none"),
                Cluster(Unit, "None", "None", "start"),
                Cluster(Unit, "None", "None", "cont")},
               {0}, {<< >>})
    /\ [][NextRunLigature]_vars

\* the alignments offered are one that moves the line, and the one that
\* changes cluster advances
NextFinish ==
    \/ New
    \/ \E ma \in MaxAdvances, al \in {"Middle", "Justified"} : BreakNextWith(ma, al)
    \/ Finish
    \/ \E ma \in MaxAdvances, al \in {"Middle", "Justified"} : BreakRemainingWith(ma, al)
    \/ Drop

\* Breaking and finishing of text with left-to-right and right-to-left runs:
\* letters and spaces, with and without a break opportunity before them
SpecFinish ==
    LayoutInit(0..MaxClusters, MaxRuns,
               {Cluster(Unit, b, w, "none") :
                   b \in {"None", "Line"}, w \in {"None", "Space"}},
               {0, 1}, {<< >>})
    /\ [][NextFinish]_vars

\* Breaking and finishing of left-to-right text with every alignment
NextAlign ==
    \/ New
    \/ \E ma \in MaxAdvances, al \in {"Start", "End", "Middle", "Justified"} :
          BreakNextWith(ma, al)
    \/ Finish

\* a letter, a space with a break opportunity before it, and a letter with a
\* mandatory break before it
SpecAlign ==
    LayoutInit(0..MaxClusters, MaxRuns,
               {Cluster(Unit, "None", "None", "none"),
                Cluster(Unit, "Line", "Space", "none"),
                Cluster(Unit, "Mandatory", "None", "none")},
               {0}, {<< >>})
    /\ [][NextAlign]_vars

\* the builder's fields after a call that left it as b, and what tb records:
\* the operation, the open spans and the styles the bytes were pushed with
TreeStep(b, op, open, expect) ==
    /\ tree' = b.tree
    /\ flatted_styles' = b.flatted_styles
    /\ current_span' = b.current_span
    /\ total_text_len' = b.total_text_len
    /\ text_last_pushed_at' = b.text_last_pushed_at
    /\ tb' = IF b.panic
             THEN [tb EXCEPT !.op = op, !.panicked = TRUE]
             ELSE [tb EXCEPT !.op = op, !.open = open, !.expect = expect]

\* begin has been called
Begun == tb.open # << >>

\* TreeStyleBuilder::begin(root_style)
Begin ==
    /\ ~tb.panicked /\ tb.begins < MaxBegins
    /\ \E root_style \in Styles :
          /\ tree' = begin(Builder, root_style).tree
          /\ flatted_styles' = begin(Builder, root_style).flatted_styles
          /\ current_span' = begin(Builder, root_style).current_span
          /\ total_text_len' = begin(Builder, root_style).total_text_len
          /\ text_last_pushed_at' = begin(Builder, root_style).text_last_pushed_at
          /\ tb' = [op |-> "begin", panicked |-> FALSE, begins |-> tb.begins + 1,
                    open |-> << root_style >>, expect |-> << >>]
    /\ UNCHANGED << layoutVars, reorderVars, boxVars, styles >>

\* TreeStyleBuilder::push_style_span(style)
PushStyleSpan ==
    /\ ~tb.panicked /\ Len(tree) < MaxTreeNodes
    /\ \E style \in Styles :
          TreeStep(push_style_span(Builder, style), "push_style_span",
                   IF Begun THEN Append(tb.open, style) ELSE tb.open, tb.expect)
    /\ UNCHANGED << layoutVars, reorderVars, boxVars, styles >>

\* TreeStyleBuilder::push_style_modification_span(properties)
PushStyleModificationSpan ==
    /\ ~tb.panicked /\ Len(tree) < MaxTreeNodes
    /\ \E properties \in UNION {[1..n -> Properties] : n \in 0..MaxProps} :
          TreeStep(push_style_modification_span(Builder, properties),
                   "push_style_modification_span",
                   IF Begun THEN Append(tb.open, ApplyAll(tb.open[Len(tb.open)], properties, 1))
                   ELSE tb.open,
                   tb.expect)
    /\ UNCHANGED << layoutVars, reorderVars, boxVars, styles >>

\* TreeStyleBuilder::pop_style_span()
PopStyleSpan ==
    /\ ~tb.panicked
    /\ TreeStep(pop_style_span(Builder), "pop_style_span",
                IF Len(tb.open) > 1 THEN SubSeq(tb.open, 1, Len(tb.open) - 1)
                ELSE tb.open,
                tb.expect)
    /\ UNCHANGED << layoutVars, reorderVars, boxVars, styles >>

\* TreeStyleBuilder::push_text(len)
PushText ==
    /\ ~tb.panicked /\ Len(tree) < MaxTreeNodes
    /\ \E len \in 0..MaxPushLen, overflow_checks \in BOOLEAN :
          TreeStep(push_text(Builder, len, overflow_checks), "push_text", tb.open,
                   IF Begun THEN tb.expect \o [p \in 1..len |-> tb.open[Len(tb.open)]]
                   ELSE tb.expect)
    /\ UNCHANGED << layoutVars, reorderVars, boxVars, styles >>

\* TreeStyleBuilder::finish(styles)
TreeFinish ==
    /\ ~tb.panicked
    /\ LET r == tree_finish(Builder, styles)
       IN /\ TreeStep(r.b, "finish",
                      IF Begun THEN << tb.open[1] >> ELSE tb.open, tb.expect)
          /\ styles' = r.styles
    /\ UNCHANGED << layoutVars, reorderVars, boxVars >>

NextTree ==
    \/ Begin
    \/ PushStyleSpan
    \/ PushStyleModificationSpan
    \/ PopStyleSpan
    \/ PushText
    \/ TreeFinish

\* Building a style tree, next to the layout of the empty text
SpecTree == LayoutInit(0..MaxClusters, MaxRuns, {}, {0}, {<< >>}) /\ [][NextTree]_vars

\* the call reorder_line_items(&mut items) on its own
Reorder ==
    /\ reorder_out = None
    /\ reorder_out' = Some(reorder_line_items(reorder_in))
    /\ UNCHANGED << layoutVars, treeVars, boxVars, reorder_in >>

\* Reordering of the items of one line: every sequence of at most MaxItems
\* line items with levels up to MaxLevel, item p being the slice of run p - 1
SpecReorder ==
    LayoutInit(0..MaxClusters, MaxRuns, {}, {0},
               UNION {{[p \in 1..n |-> NewLineItem(p - 1, lv[p], Range(p - 1, p),
                                                  Range(p - 1, p))] :
                          lv \in [1..n -> 0..MaxLevel]} : n \in 0..MaxItems})
    /\ [][Reorder]_vars

RECURSIVE SortUnstable(_, _)
\* a sort that puts a box before the boxes of the same index
SortUnstable(boxes, acc) ==
    IF boxes = << >> THEN acc
    ELSE SortUnstable(Tail(boxes),
             SelectSeq(acc, LAMBDA b : b.index < Head(boxes).index)
                \o << Head(boxes) >>
                \o SelectSeq(acc, LAMBDA b : b.index >= Head(boxes).index))

RECURSIVE sort_by_key(_, _)
\* inline_boxes.sort_by_key(|b| b.index), a stable sort: each box in turn is
\* inserted into the sorted acc behind the boxes whose index is not larger
sort_by_key(boxes, acc) ==
    IF boxes = << >> THEN acc
    ELSE sort_by_key(Tail(boxes),
             SelectSeq(acc, LAMBDA b : b.index <= Head(boxes).index)
                \o << Head(boxes) >>
                \o SelectSeq(acc, LAMBDA b : b.index > Head(boxes).index))

\* push_inline_box(inline_box), of either builder; the id of a box is its
\* place among the pushes
PushInlineBox ==
    /\ ~tb.panicked /\ Len(lcx_inline_boxes) < MaxBoxes
    /\ \E index \in 0..MaxBoxIndex :
          lcx_inline_boxes' =
              Append(lcx_inline_boxes, [id |-> Len(lcx_inline_boxes), index |-> index])
    /\ UNCHANGED << layoutVars, treeVars, reorderVars, inline_boxes, ranged, info_len >>

RECURSIVE StyleIndexPanics(_, _, _, _)
\* "for (i, style) in lcx.styles.iter().enumerate() { for _ in
\* text[style.range.clone()].chars() { lcx.info[char_index].1 = i as u16;
\* char_index += 1; } }" on a text of len bytes, one byte per character, when
\* lcx.info has info entries: slicing panics on a range that is reversed
\* or ends behind the text, and lcx.info[char_index] panics behind its end
StyleIndexPanics(sty, char_index, len, info) ==
    IF sty = << >> THEN FALSE
    ELSE IF \/ Head(sty).range.start > Head(sty).range.end
            \/ Head(sty).range.end > len
    THEN TRUE
    ELSE IF char_index + RangeLen(Head(sty).range) > info THEN TRUE
    ELSE StyleIndexPanics(Tail(sty), char_index + RangeLen(Head(sty).range),
                          len, info)

\* build_into_layout for a text of n bytes, with sty in lcx.styles and info
\* analysed characters in lcx.info. The empty text is replaced by " "; the
\* layout is cleared and text_len set; the style indices are written (or the
\* call panics there, with the boxes still in the context); the boxes are
\* sorted, the text is shaped into runs and clusters, and the boxes are moved
\* into the layout; the layout of the empty text is cut back to one run
\* without clusters. is_local: the layout is the local of build, which the
\* caller gets when build returns and which an unwind drops, so that the
\* caller's layout is as it was. hist remembers the boxes a build that
\* returned started from, and nothing of a build_into that unwound
build_into_layout(n, sty, info, is_local) ==
    IF StyleIndexPanics(sty, 0, IF n = 0 THEN 1 ELSE n, info)
    THEN /\ tb' = [tb EXCEPT !.op = "build_into", !.panicked = TRUE]
         /\ IF is_local
            THEN UNCHANGED << layout_lines, layout_items, layout_size, text_len,
                              runs, clusters, shaped, inline_boxes, hist >>
            ELSE /\ layout_lines' = << >>
                 /\ layout_items' = << >>
                 /\ layout_size' = [width |-> 0, full_width |-> 0, height |-> 0]
                 /\ text_len' = IF n = 0 THEN 1 ELSE n
                 /\ runs' = << >>
                 /\ clusters' = << >>
                 /\ shaped' = << >>
                 /\ inline_boxes' = << >>
                 /\ hist' = [NoHist EXCEPT !.op = "unwound"]
         /\ UNCHANGED lcx_inline_boxes
    ELSE /\ tb' = [tb EXCEPT !.op = "build_into",
                             !.open = IF Begun THEN << tb.open[1] >> ELSE tb.open]
         /\ layout_lines' = << >>
         /\ layout_items' = << >>
         /\ layout_size' = [width |-> 0, full_width |-> 0, height |-> 0]
         /\ inline_boxes' = sort_by_key(lcx_inline_boxes, << >>)
         /\ lcx_inline_boxes' = << >>
         /\ hist' = [NoHist EXCEPT !.op = "build_into",
                                   !.pre = << lcx_inline_boxes >>]
         /\ text_len' = n
         /\ IF n = 0
            THEN /\ clusters' = << >>
                 /\ runs' = << RunData(0, 0, 0, 0) >>
            ELSE /\ clusters' = [p \in 1..n |-> Cluster(Unit, "None", "None", "none")]
                 /\ runs' \in RunSplits(n, MaxRuns, {0})
         /\ shaped' = [p \in 1..n |-> Unit]

\* TreeBuilder::build_into(layout, text) for a text of n bytes, into the
\* caller's layout or (is_local) into the new layout of build:
\* tree_style_builder.finish writes lcx.styles (or panics, and nothing is
\* built); analyze_text leaves one entry of lcx.info per character of the
\* text; then build_into_layout
TreeBuildInto(n, is_local) ==
    /\ ~alive /\ ~tb.panicked
    /\ LET r == tree_finish(Builder, styles)
       IN /\ tree' = r.b.tree
          /\ flatted_styles' = r.b.flatted_styles
          /\ current_span' = r.b.current_span
          /\ total_text_len' = r.b.total_text_len
          /\ text_last_pushed_at' = r.b.text_last_pushed_at
          /\ styles' = r.styles
          /\ IF r.b.panic
             THEN /\ tb' = [tb EXCEPT !.op = "build_into", !.panicked = TRUE]
                  /\ UNCHANGED << boxVars, hist, layout_lines, layout_items,
                                  layout_size, text_len, runs, clusters, shaped >>
             ELSE /\ info_len' = n
                  /\ build_into_layout(n, r.styles, n, is_local)
    /\ UNCHANGED << reorderVars, ranged, alive, lines, line_items, state, prev_state,
                    done, panicked, passes >>

\* TreeBuilder::build_into(layout, text)
BuildInto == \E n \in 0..MaxPushLen : TreeBuildInto(n, FALSE)

\* TreeBuilder::build(text): "let mut layout = Layout::default();
\* self.build_into(&mut layout, text); layout"
Build == \E n \in 0..MaxPushLen : TreeBuildInto(n, TRUE)

\* LayoutContext::ranged_builder(fcx, text, scale) for a text of len bytes:
\* the context's styles are cleared, the ranged style builder is begun for
\* len bytes with the default style, and the text is analysed
RangedBuilderNew ==
    /\ ~alive /\ ~tb.panicked
    /\ \E len \in 0..MaxPushLen :
          /\ ranged' = [RangedDefault EXCEPT !.len = len]
          /\ info_len' = len
    /\ styles' = << >>
    /\ UNCHANGED << layoutVars, reorderVars, tree, flatted_styles, current_span,
                    total_text_len, text_last_pushed_at, tb, lcx_inline_boxes,
                    inline_boxes >>

\* RangedBuilder::push_default(property), on a builder that is begun: the
\* property is set for the entire paragraph
RangedPushDefault ==
    /\ ~tb.panicked /\ ranged.len # USIZE_MAX
    /\ \E property \in Properties :
          ranged' = [ranged EXCEPT !.default_style = apply(@, property)]
    /\ UNCHANGED << layoutVars, treeVars, reorderVars, lcx_inline_boxes,
                    inline_boxes, info_len >>

\* RangedBuilder::push(property, range), on a builder that is begun, for a
\* range of bytes of the paragraph
RangedPush ==
    /\ ~tb.panicked /\ ranged.len # USIZE_MAX
    /\ Len(ranged.properties) < MaxRangedProps
    /\ \E property \in Properties, start \in 0..MaxPushLen, end \in 0..MaxPushLen :
          /\ start < end /\ end <= ranged.len
          /\ ranged' = [ranged EXCEPT !.properties =
                           Append(@, [property |-> property,
                                      range |-> Range(start, end)])]
    /\ UNCHANGED << layoutVars, treeVars, reorderVars, lcx_inline_boxes,
                    inline_boxes, info_len >>

RECURSIVE RangedStyleAt(_, _, _, _)
\* the style of byte i: style, with the properties k.. whose range holds i
\* applied in the order of the pushes, so that a later push overrides an
\* earlier one
RangedStyleAt(style, props, k, i) ==
    IF k > Len(props) THEN style
    ELSE RangedStyleAt(IF props[k].range.start <= i /\ i < props[k].range.end
                       THEN apply(style, props[k].property) ELSE style,
                       props, k + 1, i)

RECURSIVE RangedSegments(_, _, _)
\* the flattened sequence from byte i on: a byte whose style is the style of
\* the last segment of acc extends it, another byte opens a segment
RangedSegments(b, i, acc) ==
    IF i >= b.len THEN acc
    ELSE IF /\ acc # << >>
            /\ acc[Len(acc)].style = RangedStyleAt(b.default_style, b.properties, 1, i)
    THEN RangedSegments(b, i + 1, [acc EXCEPT ![Len(acc)].range.end = i + 1])
    ELSE RangedSegments(b, i + 1,
             Append(acc, [style |-> RangedStyleAt(b.default_style, b.properties, 1, i),
                          range |-> Range(i, i + 1)]))

\* RangedStyleBuilder::finish(styles): nothing on a builder that is not begun;
\* else the default style over 0..len, overlaid with the pushed properties,
\* split where the style changes
ranged_finish(b, out) ==
    IF b.len = USIZE_MAX THEN out
    ELSE IF b.len = 0 THEN << [style |-> b.default_style, range |-> Range(0, 0)] >>
    ELSE RangedSegments(b, 0, << >>)

\* RangedBuilder::build_into(layout, text) for a text of n bytes, into the
\* caller's layout or (is_local) into the new layout of build:
\* ranged_style_builder.finish writes lcx.styles and leaves the builder not
\* begun; lcx.info holds the analysis of the text the builder was made for;
\* then build_into_layout
RangedBuildIntoLayout(n, is_local) ==
    /\ ~alive /\ ~tb.panicked
    /\ styles' = ranged_finish(ranged, styles)
    /\ ranged' = RangedDefault
    /\ build_into_layout(n, ranged_finish(ranged, styles), info_len, is_local)
    /\ UNCHANGED << reorderVars, tree, flatted_styles, current_span, total_text_len,
                    text_last_pushed_at, info_len, alive, lines, line_items, state,
                    prev_state, done, panicked, passes >>

\* RangedBuilder::build_into(layout, text)
RangedBuildInto == \E n \in 0..MaxPushLen : RangedBuildIntoLayout(n, FALSE)

\* RangedBuilder::build(text): a new layout, build_into on it, the layout
\* returned
RangedBuild == \E n \in 0..MaxPushLen : RangedBuildIntoLayout(n, TRUE)

\* Pushing inline boxes and building layouts: with a tree builder whose
\* style spans and text (at most MaxBoxTreeNodes tree nodes) were set up
\* before the first box, or with a ranged builder, whose properties were
\* pushed before the first box, on a context no tree builder has used; at
\* most MaxRebuildBoxes boxes are pushed for a build that follows another
NextBoxes ==
    \/ lcx_inline_boxes = << >> /\ hist.op = "init" /\ Begin
    \/ /\ lcx_inline_boxes = << >> /\ hist.op = "init"
       /\ Len(tree) < MaxBoxTreeNodes
       /\ PushStyleSpan
    \/ lcx_inline_boxes = << >> /\ hist.op = "init" /\ PopStyleSpan
    \/ /\ lcx_inline_boxes = << >> /\ hist.op = "init"
       /\ Len(tree) < MaxBoxTreeNodes
       /\ PushText
    \/ /\ lcx_inline_boxes = << >> /\ hist.op = "init" /\ tb.op = "default"
       /\ ranged.len = USIZE_MAX
       /\ RangedBuilderNew
    \/ /\ lcx_inline_boxes = << >> /\ hist.op = "init" /\ tb.op = "default"
       /\ RangedPushDefault
    \/ /\ lcx_inline_boxes = << >> /\ hist.op = "init" /\ tb.op = "default"
       /\ RangedPush
    \/ (hist.op = "init" \/ Len(lcx_inline_boxes) < MaxRebuildBoxes) /\ PushInlineBox
    \/ BuildInto
    \/ Build
    \/ tb.op = "default" /\ RangedBuildInto
    \/ tb.op = "default" /\ RangedBuild

SpecBoxes == LayoutInit(0..MaxClusters, MaxRuns, {}, {0}, {<< >>}) /\ [][NextBoxes]_vars

\* ------------------------------------------------------------------------
\* Properties of the line breaker
\* ------------------------------------------------------------------------
\* the breaker as it was before the break_next that hist remembers
Pre == hist.pre[1]

\* a revert that directly followed a break_next
RevertAfterBreakNext == hist.op = "revert" /\ hist.pre # << >>

\* the breaker is what it was before the remembered break_next, and not done
RestoredToPre ==
    /\ lines = Pre.lines
    /\ line_items = Pre.items
    /\ state = Pre.state
    /\ done = FALSE

\* C1 as stated: for any breaker state, break_next followed immediately by
\* revert leaves the lines, the line items and every state field as they were
\* before the break_next, and done is false.
C1_RevertFaithfulAnyState == RevertAfterBreakNext => RestoredToPre

\* C1, amended: for any breaker state in which done is false, break_next
\* followed immediately by revert leaves the lines, the line items and every
\* state field as they were before the break_next, revert returns true and
\* done is false.
C1_RevertFaithful ==
    (RevertAfterBreakNext /\ ~Pre.done) => (RestoredToPre /\ hist.ret = "true")

\* a second line was committed by break_next and then reverted
C1_Witness ==
    /\ RevertAfterBreakNext
    /\ ~Pre.done
    /\ hist.prev_ret = "some"
    /\ Len(Pre.lines) >= 1

\* the items of line ln
ItemsOf(ls, its, i) == Slice(its, ls[i].run_range)

\* the cluster ranges of the lines are pairwise disjoint and in increasing order
LinesDisjointInOrder(ls, its) ==
    \A i \in 1..Len(ls) : \A j \in 1..Len(ls) :
        i < j =>
            \A a \in 1..Len(ItemsOf(ls, its, i)) : \A b \in 1..Len(ItemsOf(ls, its, j)) :
                /\ ItemsOf(ls, its, i)[a].cluster_range.start
                      <= ItemsOf(ls, its, i)[a].cluster_range.end
                /\ ItemsOf(ls, its, i)[a].cluster_range.end
                      <= ItemsOf(ls, its, j)[b].cluster_range.start

\* C3: a break_next never removes lines or line items, adds exactly one line
\* when it returns Some and none when it returns None, and the cluster ranges
\* covered by successive lines are pairwise disjoint and in increasing order.
C3_CommitMonotonic ==
    /\ hist.op = "break_next" =>
          /\ Len(lines) >= Len(Pre.lines)
          /\ Len(line_items) >= Len(Pre.items)
          /\ SubSeq(lines, 1, Len(Pre.lines)) = Pre.lines
          /\ SubSeq(line_items, 1, Len(Pre.items)) = Pre.items
          /\ hist.ret \in {"some", "none"}
          /\ hist.ret = "some" =>
                /\ Len(lines) = Len(Pre.lines) + 1
                /\ Len(line_items) > Len(Pre.items)
          /\ hist.ret = "none" =>
                /\ Len(lines) = Len(Pre.lines)
                /\ Len(line_items) = Len(Pre.items)
    /\ LinesDisjointInOrder(lines, line_items)

\* C8: a revert that returns true removes the last line and all of
\* its line items, so that lines.len() decreases by exactly one; a revert that
\* returns false changes nothing.
C8_RevertRemovesLastLine ==
    [][hist'.op = "revert" =>
          IF hist'.ret = "true"
          THEN /\ Len(lines) >= 1
               /\ lines' = SubSeq(lines, 1, Len(lines) - 1)
               /\ line_items' = SubSeq(line_items, 1, lines[Len(lines)].run_range.start)
          ELSE UNCHANGED << lines, line_items, state, prev_state, done >>]_vars

\* the clusters of the last line of ls
LastLineItems(ls, its) == ItemsOf(ls, its, Len(ls))

\* C9: every break_next terminates; a break_next that returns Some on a
\* non-empty text has committed a line that holds at least one cluster;
\* break_remaining terminates with at most max(1, cluster_count) lines.
C9_TerminationProgress ==
    /\ hist.ret \notin {"diverge", "panic"}
    /\ (hist.op = "break_next" /\ hist.ret = "some" /\ text_len > 0) =>
          /\ Len(LastLineItems(lines, line_items)) >= 1
          /\ \A a \in 1..Len(LastLineItems(lines, line_items)) :
                ~RangeIsEmpty(LastLineItems(lines, line_items)[a].cluster_range)
    /\ hist.op = "break_remaining" =>
          Len(layout_lines) <= Max(1, NumClusters)
    /\ Len(lines) <= Max(1, NumClusters)

\* a Line boundary at x = 0 was followed by a fragment that overflows: the
\* line was committed as an emergency break that starts at the boundary
C9_Witness ==
    /\ hist.op = "break_next"
    /\ hist.ret = "some"
    /\ Len(lines) >= 2
    /\ lines[Len(lines)].break_reason = "Emergency"
    /\ lines[Len(lines)].advance > lines[Len(lines)].max_advance
    /\ Cl(LastLineItems(lines, line_items)[1].cluster_range.start).boundary = "Line"
    /\ LastLineItems(lines, line_items)[1].cluster_range.end
          >= LastLineItems(lines, line_items)[1].cluster_range.start + 2

RECURSIVE ContinuationAdvance(_)
\* the advances of the ligature continuations that start at cluster k
ContinuationAdvance(k) ==
    IF k < NumClusters /\ Cl(k).ligature = "cont"
    THEN Cl(k).advance + ContinuationAdvance(k + 1) ELSE 0

\* C10: no committed line ends between a ligature start and one of its
\* continuation clusters, in whichever run the ligature lies, and the advance
\* that break_next tests against max_advance for a ligature is the sum of the
\* advances of the start cluster and of its own continuation clusters.
C10_LigatureAtomic ==
    /\ \A i \in 1..Len(lines) :
          LET last == ItemsOf(lines, line_items, i)[RangeLen(lines[i].run_range)]
          IN last.cluster_range.end < NumClusters =>
                Cl(last.cluster_range.end).ligature # "cont"
    /\ (hist.op = "break_next" /\ IsSome(hist.probe)
          /\ Cl(Unwrap(hist.probe).start).ligature = "start") =>
          Unwrap(hist.probe).advance =
              Cl(Unwrap(hist.probe).start).advance
                 + ContinuationAdvance(Unwrap(hist.probe).start + 1)

\* the layout holds the lines of a finished break pass
Finished == ~alive /\ ~panicked /\ hist.op \in {"finish", "break_remaining"}

\* C2: after finish, every line whose max_advance is finite has
\* advance - trailing_whitespace <= max_advance, or its break_reason is
\* Emergency, whatever the bidi levels of the runs are.
C2_WidthBound ==
    Finished =>
        \A i \in 1..Len(layout_lines) :
            HasFiniteWidth(layout_lines[i].max_advance) =>
                \/ layout_lines[i].advance - layout_lines[i].trailing_whitespace
                      <= layout_lines[i].max_advance
                \/ layout_lines[i].break_reason = "Emergency"

\* C4: constructing a new BreakLines on a layout that was broken and finished
\* returns every cluster's advance to its shaped value.
C4_JustifyRoundTrip ==
    (hist.op = "new" /\ passes >= 2) =>
        \A k \in 1..Len(clusters) : clusters[k].advance = shaped[k]

\* ------------------------------------------------------------------------
\* Properties of the reordering
\* ------------------------------------------------------------------------
\* the maximal contiguous stretch of items around position p whose levels
\* are all >= level, as the pair of its first and last position
StretchAround(s, p, level) ==
    LET ok(a, b) == \A t \in a..b : s[t].bidi_level >= level
    IN [first |-> CHOOSE a \in 1..p : ok(a, p) /\ (a = 1 \/ s[a - 1].bidi_level < level),
        last |-> CHOOSE b \in p..Len(s) :
                     ok(p, b) /\ (b = Len(s) \/ s[b + 1].bidi_level < level)]

\* rule L2 for one level: every maximal stretch at that level or higher is
\* reversed
L2Reverse(s, level) ==
    [p \in 1..Len(s) |->
        IF s[p].bidi_level >= level
        THEN LET m == StretchAround(s, p, level) IN s[m.first + m.last - p]
        ELSE s[p]]

RECURSIVE L2From(_, _, _)
\* rule L2 from a level down to the lowest odd level
L2From(s, level, lowest_odd) ==
    IF level < lowest_odd THEN s
    ELSE L2From(L2Reverse(s, level), level - 1, lowest_odd)

\* UAX #9 rule L2: the visual order of the items s
L2Order(s) ==
    LET levels == {s[p].bidi_level : p \in 1..Len(s)}
        odd == {l \in levels : l % 2 = 1}
    IN IF odd = {} THEN s
       ELSE L2From(s, CHOOSE l \in levels : \A m \in levels : m <= l,
                   CHOOSE l \in odd : \A m \in odd : l <= m)

\* t is a permutation of s
IsPermutation(s, t) ==
    /\ Len(s) = Len(t)
    /\ \E f \in [1..Len(s) -> 1..Len(s)] :
          /\ \A p, q \in 1..Len(s) : p # q => f[p] # f[q]
          /\ \A p \in 1..Len(s) : t[p] = s[f[p]]

\* C5: reorder_line_items produces the visual order of UAX #9 rule L2, and
\* the result is a permutation of the input.
C5_ReorderIsL2 ==
    IsSome(reorder_out) =>
        /\ Unwrap(reorder_out) = L2Order(reorder_in)
        /\ IsPermutation(reorder_in, Unwrap(reorder_out))

\* items at nested levels were reordered: an even level inside an odd one,
\* next to an item at level 0
C5_Witness ==
    /\ IsSome(reorder_out)
    /\ Len(reorder_in) >= 4
    /\ \E p \in 1..(Len(reorder_in) - 1) :
          /\ reorder_in[p].bidi_level = 1
          /\ reorder_in[p + 1].bidi_level = 2
    /\ \E p \in 1..Len(reorder_in) : reorder_in[p].bidi_level = 0
    /\ Unwrap(reorder_out) # reorder_in

\* ------------------------------------------------------------------------
\* Properties of the tree style builder
\* ------------------------------------------------------------------------
\* finish has returned on a builder that was begun
TreeFinished == tb.op = "finish" /\ ~tb.panicked /\ Begun

\* C6: after begin and any pushes and pops that never pop the root, finish
\* emits ranged styles whose ranges are non-empty, ordered, disjoint,
\* contiguous, and cover exactly [0, length of the text pushed since begin).
C6_StyleCoverage ==
    TreeFinished =>
        /\ \A i \in 1..Len(styles) : styles[i].range.start < styles[i].range.end
        /\ \A i \in 1..(Len(styles) - 1) :
              styles[i].range.end = styles[i + 1].range.start
        /\ IF Len(tb.expect) = 0 THEN styles = << >>
           ELSE /\ Len(styles) >= 1
                /\ styles[1].range.start = 0
                /\ styles[Len(styles)].range.end = Len(tb.expect)

\* text was pushed at three places of a nested tree, and finish emitted
\* three ranges
C6_Witness ==
    /\ TreeFinished
    /\ Len(styles) >= 3
    /\ \E i \in 1..Len(tree) : tree[i].kind = "Span" /\ tree[i].parent = Some(0)

\* C7: every byte of pushed text is emitted by finish with the style of the
\* span that was at the cursor when push_text attached it.
C7_FlatteningCorrect ==
    TreeFinished =>
        \A byte \in 0..(Len(tb.expect) - 1) :
            /\ \E i \in 1..Len(styles) :
                  styles[i].range.start <= byte /\ byte < styles[i].range.end
            /\ \A i \in 1..Len(styles) :
                  (styles[i].range.start <= byte /\ byte < styles[i].range.end) =>
                      styles[i].style = tb.expect[byte + 1]

\* text before a child span, text inside it, and text after it was popped:
\* the parent's style is emitted again after the child's
C7_Witness ==
    /\ TreeFinished
    /\ Len(styles) = 3
    /\ styles[1].style # styles[2].style
    /\ styles[3].style = styles[1].style
    /\ Len(tb.expect) >= 3

\* ------------------------------------------------------------------------
\* Properties of the breaks
\* ------------------------------------------------------------------------
\* the clusters [start, end) that line i of ls covers
LineClusters(ls, its, i) ==
    Range(ItemsOf(ls, its, i)[1].cluster_range.start,
          ItemsOf(ls, its, i)[RangeLen(ls[i].run_range)].cluster_range.end)

\* clusters k and k + 1 both carry the Mandatory boundary class
MandatoryPair(k) ==
    /\ k + 1 < NumClusters
    /\ Cl(k).boundary = "Mandatory"
    /\ Cl(k + 1).boundary = "Mandatory"

\* line i of the layout is an Explicit line that holds cluster k and nothing else
ExplicitLineOf(i, k) ==
    /\ layout_lines[i].break_reason = "Explicit"
    /\ LineClusters(layout_lines, layout_items, i) = Range(k, k + 1)

\* break_remaining has returned and left the lines in the layout
Broken == ~alive /\ hist.op = "break_remaining" /\ hist.ret \in {"done", "not_done"}

\* C11 as stated: when two consecutive clusters both carry the Mandatory
\* boundary class, only one Explicit break is committed for the pair: no
\* Explicit line that consists solely of the first of the two is produced.
C11_MandatoryCollapse ==
    Broken =>
        \A k \in 0..(NumClusters - 1) : \A i \in 1..Len(layout_lines) :
            MandatoryPair(k) => ~ExplicitLineOf(i, k)

\* C12: a break_next that runs out of text with a non-empty pending line
\* commits it with BreakReason::None, sets done and returns it; a break_next
\* on a done breaker returns None and leaves the lines, the line items and
\* the state unchanged; done lasts until a revert.
C12_EndOfText ==
    /\ hist.op = "break_next" =>
          /\ Pre.done =>
                /\ hist.ret = "none"
                /\ lines = Pre.lines
                /\ line_items = Pre.items
                /\ state = Pre.state
                /\ done
          /\ (~Pre.done /\ hist.ret = "none") =>
                /\ RangeIsEmpty(state.line.clusters)
                /\ ~done
          /\ (~Pre.done /\ hist.ret = "some") =>
                (done <=> lines[Len(lines)].break_reason = "None")
    /\ done =>
          /\ Len(lines) >= 1
          /\ lines[Len(lines)].break_reason = "None"
    /\ (hist.op = "revert" /\ hist.ret = "true") => ~done

\* a break_next on a breaker that had committed its second and last line
C12_Witness ==
    /\ hist.op = "break_next"
    /\ Pre.done
    /\ hist.ret = "none"
    /\ Len(lines) >= 2
    /\ lines[Len(lines)].break_reason = "None"

\* C13: on the layout of the empty text the first break_next commits one
\* line with BreakReason::None that holds one line item with cluster range
\* 0..0 and text range 0..0, and every later break_next returns None, so
\* that exactly one line exists.
C13_EmptyTextOneLine ==
    (text_len = 0 /\ hist.op = "break_next") =>
        /\ Len(lines) = 1
        /\ lines[1].break_reason = "None"
        /\ lines[1].run_range = Range(0, 1)
        /\ Len(line_items) = 1
        /\ line_items[1].cluster_range = Range(0, 0)
        /\ line_items[1].text_range = Range(0, 0)
        /\ done
        /\ Pre.lines = << >> => hist.ret = "some"
        /\ Pre.lines # << >> => (hist.ret = "none" /\ Pre.done)

\* the second break_next on the layout of the empty text
C13_Witness ==
    /\ text_len = 0
    /\ clusters = << >>
    /\ runs[1].cluster_range = Range(0, 0)
    /\ hist.op = "break_next"
    /\ hist.ret = "none"
    /\ Len(Pre.lines) = 1
    /\ Len(lines) = 1

\* the step is a finish of the lines of the breaker
FinishStep == alive /\ ~alive' /\ hist'.op = "finish"

\* the clusters of the items of line i
ClustersOfLine(ls, its, i) ==
    {k \in 0..(NumClusters - 1) :
        \E a \in 1..Len(ItemsOf(ls, its, i)) :
            /\ ItemsOf(ls, its, i)[a].cluster_range.start <= k
            /\ k < ItemsOf(ls, its, i)[a].cluster_range.end}

Committed(item) ==
    [index |-> item.index, bidi_level |-> item.bidi_level,
     cluster_range |-> item.cluster_range, text_range |-> item.text_range]

\* C16: finish leaves the items of a line whose items all have bidi level 0
\* in the order in which they were committed, with the run, the clusters and
\* the text they were committed with.
C16_LtrLineUnchanged ==
    [][FinishStep =>
          \A i \in 1..Len(lines) :
              (\A a \in 1..Len(ItemsOf(lines, line_items, i)) :
                    ItemsOf(lines, line_items, i)[a].bidi_level = 0) =>
                  [a \in 1..Len(ItemsOf(lines, line_items, i)) |->
                        Committed(ItemsOf(layout_lines', layout_items', i)[a])]
                    = [a \in 1..Len(ItemsOf(lines, line_items, i)) |->
                        Committed(ItemsOf(lines, line_items, i)[a])]]_vars

\* finish has left a line of two left-to-right items in their order
C16_Witness ==
    /\ hist.op = "finish"
    /\ \E i \in 1..Len(layout_lines) :
          /\ RangeLen(layout_lines[i].run_range) = 2
          /\ \A a \in 1..2 : ItemsOf(layout_lines, layout_items, i)[a].bidi_level = 0
          /\ ItemsOf(layout_lines, layout_items, i)[1].index = 0
          /\ ItemsOf(layout_lines, layout_items, i)[2].index = 1

\* C18: after break_remaining, a line starts at every cluster k > 0 that
\* carries the Mandatory boundary class and is not a ligature continuation
\* (a letter or the start cluster of a ligature), for every max_advance and
\* every combination of breaks before it.
C18_MandatoryHonoured ==
    Broken =>
        \A k \in 1..(NumClusters - 1) :
            (Cl(k).boundary = "Mandatory" /\ Cl(k).ligature # "cont") =>
                \E i \in 1..Len(layout_lines) :
                    LineClusters(layout_lines, layout_items, i).start = k

\* C19: after a break_next that commits a line with BreakReason::Emergency
\* the cursor cluster_idx is the first cluster of the next line (the cluster
\* end of the committed line), so that this cluster is examined next.
C19_EmergencyAdvancesOnce ==
    (hist.op = "break_next" /\ hist.ret = "some"
        /\ lines[Len(lines)].break_reason = "Emergency") =>
        state.cluster_idx = LineClusters(lines, line_items, Len(lines)).end

\* the last break_next has committed the line stored at a previous boundary
Rewrapped == hist.op = "break_next" /\ hist.ret = "some" /\ hist.rewrap # None

\* the PrevBoundaryState the last break_next has rewrapped to
RewrapPrev == hist.rewrap[1]

\* C20: when a cluster that is not a space overflows and a prev_boundary with
\* state.x != 0 is stored, break_next commits one line with BreakReason::Regular
\* that holds the clusters from the line start up to the boundary cluster
\* (excluded) and whose advance is the x recorded at the boundary; the next
\* line starts at the boundary cluster and the cursor (run_idx, cluster_idx)
\* is reset to it.
C20_RegularRewrap ==
    Rewrapped =>
        /\ ~IsSpaceOrNbsp(hist.probe[1].start)
        /\ RewrapPrev.state.x # 0
        /\ Cl(RewrapPrev.cluster_idx).boundary = "Line"
        /\ Len(lines) = Len(Pre.lines) + 1
        /\ lines[Len(lines)].break_reason = "Regular"
        /\ LineClusters(lines, line_items, Len(lines)) =
              Range(Pre.state.line.clusters.start, RewrapPrev.cluster_idx)
        /\ lines[Len(lines)].advance = RewrapPrev.state.x
        /\ state.line.clusters.start = RewrapPrev.cluster_idx
        /\ state.line.x = 0
        /\ state.cluster_idx = RewrapPrev.cluster_idx
        /\ state.run_idx = RewrapPrev.run_idx
        /\ Rn(state.run_idx).cluster_range.start <= state.cluster_idx
        /\ state.cluster_idx < Rn(state.run_idx).cluster_range.end

\* the last break_next has returned a line, and the last cluster it measured
\* is a space that did not fit
SpaceOverflowed ==
    /\ hist.op = "break_next" /\ hist.ret = "some" /\ hist.probe # None
    /\ IsSpaceOrNbsp(hist.probe[1].start)
    /\ hist.probe[1].x + hist.probe[1].advance > lines[Len(lines)].max_advance

\* C21: when a space or nbsp cluster does not fit, break_next commits one line
\* with BreakReason::Regular whose last cluster is the space and whose
\* advance includes the advance of the space; prev_boundary is cleared and
\* the next line starts at the cluster after the space.
C21_HangingWhitespace ==
    SpaceOverflowed =>
        /\ Len(lines) = Len(Pre.lines) + 1
        /\ lines[Len(lines)].break_reason = "Regular"
        /\ LineClusters(lines, line_items, Len(lines)) =
              Range(Pre.state.line.clusters.start, hist.probe[1].start + 1)
        /\ lines[Len(lines)].advance =
              hist.probe[1].x + Cl(hist.probe[1].start).advance
        /\ state.prev_boundary = None
        /\ state.line.clusters.start = hist.probe[1].start + 1
        /\ state.cluster_idx = hist.probe[1].start + 1
        /\ state.line.x = 0

\* a letter with a break opportunity fits, the space after it hangs
C21_Witness ==
    /\ SpaceOverflowed
    /\ hist.probe[1].start = 1
    /\ Cl(0).boundary = "Line"
    /\ Pre.state.prev_boundary = None
    /\ lines[Len(lines)].advance = 2 * Unit
    /\ lines[Len(lines)].max_advance = Unit
    /\ NumClusters = 3

\* The space/nbsp clusters of line i that were added to it because they fit:
\* not the last cluster of a Regular line that overflows (the hung space),
\* and not the first cluster of a line that follows an emergency break (the
\* cursor has passed it without measuring it).
FitSpaces(ls, its, i) ==
    {c \in LineClusters(ls, its, i).start..(LineClusters(ls, its, i).end - 1) :
        /\ IsSpaceOrNbsp(c)
        /\ ~(/\ c = LineClusters(ls, its, i).end - 1
              /\ ls[i].break_reason = "Regular"
              /\ ls[i].advance > ls[i].max_advance)
        /\ ~(/\ c = LineClusters(ls, its, i).start
              /\ i > 1
              /\ ls[i - 1].break_reason = "Emergency")}

\* C22: each committed line stores as num_spaces the number of space/nbsp
\* clusters that were added to the pending line because they fit, minus one
\* (saturating at zero) exactly when its break reason is Regular.
C22_StoredNumSpaces ==
    alive =>
        \A i \in 1..Len(lines) :
            lines[i].num_spaces =
                IF lines[i].break_reason = "Regular"
                THEN Max(Cardinality(FitSpaces(lines, line_items, i)) - 1, 0)
                ELSE Cardinality(FitSpaces(lines, line_items, i))

\* "a b" wrapped after "a ": the first line stores 0, the second holds "b"
C22_Witness ==
    /\ alive /\ done
    /\ NumClusters = 3
    /\ IsSpaceOrNbsp(1)
    /\ Len(lines) = 2
    /\ lines[1].break_reason = "Regular"
    /\ lines[1].max_advance = 2 * Unit
    /\ LineClusters(lines, line_items, 1) = Range(0, 2)
    /\ FitSpaces(lines, line_items, 1) = {1}
    /\ lines[1].num_spaces = 0
    /\ LineClusters(lines, line_items, 2) = Range(2, 3)

\* the step finishes the lines of the breaker and drops it
Finishing == alive /\ ~alive' /\ ~panicked' /\ hist'.op \in {"finish", "break_remaining"}

\* free_space of a finished line
FreeSpaceOf(ln) == ln.max_advance - ln.advance + ln.trailing_whitespace

\* finish justifies the line
IsJustified(ln) ==
    /\ ln.alignment = "Justified"
    /\ ln.break_reason # "None"
    /\ ln.num_spaces > 0
    /\ ln.max_advance < INFINITY
    /\ FreeSpaceOf(ln) > 0

C24_AlignmentOffsets ==
    Finished =>
        \A i \in 1..Len(layout_lines) :
            /\ (layout_lines[i].max_advance < INFINITY
                    /\ FreeSpaceOf(layout_lines[i]) > 0) =>
                  /\ layout_lines[i].alignment = "Start" =>
                        layout_lines[i].offset = 0
                  /\ layout_lines[i].alignment = "End" =>
                        layout_lines[i].offset = FreeSpaceOf(layout_lines[i])
                  /\ layout_lines[i].alignment = "Middle" =>
                        2 * layout_lines[i].offset = FreeSpaceOf(layout_lines[i])
            /\ FreeSpaceOf(layout_lines[i]) <= 0 => layout_lines[i].offset = 0
            /\ layout_lines[i].offset >= 0

\* a line aligned to the end and a centred line with room to spare, and a
\* line aligned to the end that fills its width
C24_Witness ==
    /\ hist.op = "finish"
    /\ Len(layout_lines) = 3
    /\ layout_lines[1].alignment = "End"
    /\ FreeSpaceOf(layout_lines[1]) = Unit
    /\ layout_lines[1].offset = Unit
    /\ layout_lines[2].alignment = "Middle"
    /\ FreeSpaceOf(layout_lines[2]) = Unit
    /\ layout_lines[2].offset = Unit \div 2
    /\ layout_lines[3].alignment = "End"
    /\ FreeSpaceOf(layout_lines[3]) = 0
    /\ layout_lines[3].offset = 0

\* the step drops the breaker: by finish, by break_remaining, or without either
Dropping == alive /\ ~alive'

\* what commit_line has put into a line
CommittedLine(ln) ==
    [run_range |-> ln.run_range, max_advance |-> ln.max_advance,
     alignment |-> ln.alignment, break_reason |-> ln.break_reason,
     num_spaces |-> ln.num_spaces, advance |-> ln.advance]

\* the greatest member of a non-empty set of numbers, 0 for the empty set
Greatest(S) == IF S = {} THEN 0 ELSE CHOOSE m \in S : \A x \in S : x <= m

\* the run ranges of the lines ls cover n items, one line after the other
LinesTileItems(ls, n) ==
    /\ Len(ls) = 0 => n = 0
    /\ Len(ls) > 0 => (ls[1].run_range.start = 0 /\ ls[Len(ls)].run_range.end = n)
    /\ \A i \in 1..(Len(ls) - 1) : ls[i].run_range.end = ls[i + 1].run_range.start

\* C25: when a BreakLines is dropped, after finish, after break_remaining or
\* with neither, the layout holds exactly the lines and line items that this
\* breaker has committed and not reverted, and none of an earlier pass;
\* layout.width is the maximum of advance - trailing_whitespace over the
\* lines, layout.full_width the maximum of advance, and layout.height the
\* sum of the line sizes.
C25_WriteBackOnDrop ==
    [][Dropping =>
        /\ Len(layout_lines') >= Len(lines)
        /\ hist'.op \in {"finish", "drop"} =>
              /\ Len(layout_lines') = Len(lines)
              /\ Len(layout_items') = Len(line_items)
        /\ \A i \in 1..Len(lines) :
              /\ CommittedLine(layout_lines'[i]) = CommittedLine(lines[i])
              /\ IsPermutation(
                     [a \in 1..RangeLen(lines[i].run_range) |->
                         Committed(ItemsOf(lines, line_items, i)[a])],
                     [a \in 1..RangeLen(lines[i].run_range) |->
                         Committed(ItemsOf(layout_lines', layout_items', i)[a])])
        /\ LinesTileItems(layout_lines', Len(layout_items'))
        /\ LinesDisjointInOrder(layout_lines', layout_items')
        /\ layout_size'.width =
              Greatest({layout_lines'[i].advance - layout_lines'[i].trailing_whitespace :
                           i \in 1..Len(layout_lines')})
        /\ layout_size'.full_width =
              Greatest({layout_lines'[i].advance : i \in 1..Len(layout_lines')})
        /\ layout_size'.height = SumSizes(layout_lines', 1)]_vars

\* a breaker that was finished has left two lines, the wider of which ends
\* with a space
C25_Witness ==
    /\ ~alive
    /\ hist.op = "finish"
    /\ Len(layout_lines) = 2
    /\ Len(layout_items) = 2
    /\ layout_lines[1].trailing_whitespace = Unit
    /\ layout_size.full_width = 2 * Unit
    /\ layout_size.width = Unit
    /\ layout_size.height = LineSize(layout_lines[1]) + LineSize(layout_lines[2])

\* the cluster range of the item is a sub-range of that of the run it names,
\* and not empty unless the text is
InsideItsRun(item) ==
    /\ item.index < NumRuns
    /\ Rn(item.index).cluster_range.start <= item.cluster_range.start
    /\ item.cluster_range.start <= item.cluster_range.end
    /\ item.cluster_range.end <= Rn(item.index).cluster_range.end
    /\ text_len # 0 => item.cluster_range.start < item.cluster_range.end

\* C26: in every reachable state the cluster range of every committed line
\* item is a non-empty (unless the text is empty) sub-range of the cluster
\* range of the run named by its index, and commit_line has not panicked.
C26_ItemsInsideRun ==
    /\ ~panicked
    /\ \A a \in 1..Len(line_items) : InsideItsRun(line_items[a])
    /\ \A a \in 1..Len(layout_items) : InsideItsRun(layout_items[a])

RECURSIVE ShapedAdvance(_, _)
\* the sum of the shaped advances of the clusters of the items sl[a..]
ShapedAdvance(sl, a) ==
    IF a > Len(sl) THEN 0
    ELSE SumAdvance([p \in 1..Len(shaped) |-> [advance |-> shaped[p]]],
                    sl[a].cluster_range.start, sl[a].cluster_range.end)
         + ShapedAdvance(sl, a + 1)

\* C27: the advance of every committed line (the x of the pending line at the
\* commit) is the sum of the shaped advances of the clusters that the items
\* of the line cover.
C27_AdvanceAccountsForClusters ==
    alive =>
        \A i \in 1..Len(lines) :
            lines[i].advance = ShapedAdvance(ItemsOf(lines, line_items, i), 1)

\* C28: after break_remaining on a layout with clusters, the cluster ranges of
\* the line items, in commit order, partition [0, cluster count): the first
\* starts at 0, each starts where the one before it ended, none is empty and
\* the last ends at the cluster count; the same holds line by line.
C28_NoTextLost ==
    (Broken /\ NumClusters > 0) =>
        /\ Len(layout_items) > 0
        /\ layout_items[1].cluster_range.start = 0
        /\ layout_items[Len(layout_items)].cluster_range.end = NumClusters
        /\ \A a \in 1..Len(layout_items) :
              layout_items[a].cluster_range.start < layout_items[a].cluster_range.end
        /\ \A a \in 1..(Len(layout_items) - 1) :
              layout_items[a].cluster_range.end = layout_items[a + 1].cluster_range.start
        /\ LinesTileItems(layout_lines, Len(layout_items))
        /\ \A i \in 1..Len(layout_lines) : RangeLen(layout_lines[i].run_range) > 0

\* C29: when the first breaker of a layout is dropped without finish, so that
\* no justification was ever applied, constructing the next BreakLines leaves
\* every cluster advance at its shaped value, whatever lines (Justified, with
\* a finite max_advance) the dropped breaker had committed.
C29_DropWithoutFinish ==
    [][(~alive /\ hist.op = "drop" /\ passes = 1 /\ alive') =>
          \A k \in 1..Len(clusters) : clusters'[k].advance = shaped[k]]_vars

\* C30: every line committed with BreakReason::Regular stores as num_spaces
\* the number of space/nbsp clusters on the line other than its last cluster.
C30_WrappedLineSpaceCount ==
    alive =>
        \A i \in 1..Len(lines) :
            lines[i].break_reason = "Regular" =>
                lines[i].num_spaces =
                    Cardinality({c \in LineClusters(lines, line_items, i).start
                                        ..(LineClusters(lines, line_items, i).end - 2) :
                                    IsSpaceOrNbsp(c)})

\* the advance of the last cluster of line i when it is a space/nbsp cluster
TrailingSpaceAdvance(ls, its, i) ==
    IF IsSpaceOrNbsp(LineClusters(ls, its, i).end - 1)
    THEN Cl(LineClusters(ls, its, i).end - 1).advance
    ELSE 0

\* C31: after finish, on every line that is Justified, has break_reason !=
\* None, num_spaces > 0, a finite max_advance and positive free space, the
\* adjusted advances of the line's clusters, without the advance of its
\* trailing space/nbsp cluster, add up to max_advance.
C31_JustifiedLineFillsWidth ==
    Finished =>
        \A i \in 1..Len(layout_lines) :
            IsJustified(layout_lines[i]) =>
                SumAdvance(clusters,
                           LineClusters(layout_lines, layout_items, i).start,
                           LineClusters(layout_lines, layout_items, i).end)
                    - TrailingSpaceAdvance(layout_lines, layout_items, i)
                  = layout_lines[i].max_advance

\* C32: when break_remaining returns, done is set and the last committed line
\* has BreakReason::None, whatever the final clusters are, so that finish does
\* not justify the last line.
C32_LastLineIsEndOfText ==
    Broken =>
        /\ hist.ret = "done"
        /\ Len(layout_lines) >= 1
        /\ layout_lines[Len(layout_lines)].break_reason = "None"
        /\ ~IsJustified(layout_lines[Len(layout_lines)])

\* the boxes that were pushed before the last build_into
Pushed == hist.pre[1]

\* C17: after build_into the inline boxes of the layout are the pushed boxes
\* in the order of non-decreasing index, and boxes of equal index are in the
\* order in which they were pushed.
C17_BoxesSortedStably ==
    hist.op = "build_into" =>
        /\ Len(inline_boxes) = Len(Pushed)
        /\ \A i \in 1..Len(Pushed) :
              \E j \in 1..Len(inline_boxes) : inline_boxes[j] = Pushed[i]
        /\ \A i \in 1..Len(inline_boxes) : \A j \in 1..Len(inline_boxes) :
              i < j =>
                 /\ inline_boxes[i].index <= inline_boxes[j].index
                 /\ inline_boxes[i].index = inline_boxes[j].index =>
                       inline_boxes[i].id < inline_boxes[j].id

\* two boxes of one index were pushed before a box of a smaller index
C17_Witness ==
    /\ hist.op = "build_into"
    /\ Len(inline_boxes) = 3
    /\ inline_boxes[1].id = 2
    /\ inline_boxes[2].id = 0
    /\ inline_boxes[3].id = 1
    /\ inline_boxes[2].index = inline_boxes[3].index

\* ------------------------------------------------------------------------
\* Properties of the misuse of the style builder
\* ------------------------------------------------------------------------
\* the cursor of the style builder is at the root span: no span is open
CursorAtRoot ==
    /\ current_span < Len(tree)
    /\ ~IsSome(tree[current_span + 1].parent)

\* C14: a pop_style_span with the cursor at the root span panics; it is never
\* a silent no-op that leaves the builder usable.
C14_PopRootPanics ==
    [][(CursorAtRoot /\ tb'.op = "pop_style_span") => tb'.panicked]_vars

\* a span was pushed and popped, and the pop that followed at the root
\* panicked with the cursor still at the root
C14_Witness ==
    /\ tb.op = "pop_style_span"
    /\ tb.panicked
    /\ CursorAtRoot
    /\ Len(tree) >= 2
    /\ Len(tb.open) = 1

====
